---- MODULE Spec2Model ----
(***************************************************************************)
(* Model of the specification compiler (scripts/api-gen.js: corpus scan,  *)
(* source mapper, spec assembly) and of the traceability auditor          *)
(* (audit-traceability: loadSpec, analyzeTraceability,                    *)
(* validateSourceFiles, auditTraceability).                               *)
(*                                                                         *)
(* Strings are sequences of one-character strings, so that                 *)
(* String.prototype.includes and split('*') are computed, not assumed.     *)
(* A rule tag such as "[GOV-HEADER-001]" is abbreviated to a bracketed     *)
(* two-letter word such as "[GH]"; a rule-document path is the position    *)
(* of the document in the list returned by findMdFiles.                    *)
(***************************************************************************)
EXTENDS Integers, Sequences, FiniteSets, TLC

VARIABLES
  pc,        \* compiler: position in generateOpenAPI
  mdIdx,     \* compiler: number of rule documents read by the scan loop
  sources,   \* compiler: tag -> file index, a JS object in insertion order
  ep,        \* compiler: endpoint declaration being mapped
  xSource,   \* compiler: value returned by resolveEndpointSources for ep
  epCount,   \* compiler: number of endpoints mapped so far
  paths,     \* compiler: spec.paths, (path, method) -> operation
  apc,       \* auditor: position in auditTraceability
  artifact,  \* auditor: the parsed contract document (spec.paths)
  config,    \* auditor: AuditConfig
  readable,  \* auditor: the source files that can be read from disk
  report,    \* auditor: TraceabilityReport
  sourcesValid, \* auditor: result of validateSourceFiles
  exitCode,  \* auditor: argument of process.exit, -1 while running
  outcome,   \* auditor: the exit site that ended the run
  docs,      \* scanner: the rule documents returned by findMdFiles
  semanticSchemas,  \* scanner: schema name -> defining document
  ruleDefinitions,  \* scanner: rule id -> defining document
  manifest,  \* validator: the parsed bun.yaml handed to validateBunYamlStructure
  validation, \* validator: what validateBunYamlStructure did
  gpc,       \* generator run: position in the script
  options,   \* generator run: the CLI options
  bunYaml,   \* generator run: the validated manifest
  contract,  \* generator run: the assembled spec (info and paths)
  prior,     \* generator run: the file named by --compare-to
  breaking,  \* generator run: the list returned by detectBreakingChanges
  lintResults, \* generator run: the result of lintOpenAPISpec
  written,   \* generator run: the output artifact was written
  gExit,     \* generator run: argument of process.exit, -1 while running
  runs,      \* watch mode: the generateOpenAPI calls in progress
  ticks,     \* watch mode: number of times the interval fired
  spc,       \* auto-sync: position in main
  syncConfig, \* auto-sync: the SyncConfig returned by parseArgs
  rulesDir,  \* auto-sync: the rule documents under rules/, path -> state
  edits,     \* auto-sync: number of changes made to rules/ so far
  fileStates, \* auto-sync: the tracked file states, path -> state
  events,    \* auto-sync: watcher events raised and not yet delivered
  timers,    \* auto-sync: the timeouts pending in the event loop
  changeTimeout, \* auto-sync: the handle kept by handleFileChanges, 0 for null
  since,     \* auto-sync: the time passed since the handler last went on, and last saw a change
  checkDue,  \* auto-sync: time left until the status interval fires
  cycles,    \* auto-sync: the timeout callbacks that await a command
  started    \* auto-sync: the cycles started so far, and when the last one started

compVars == <<pc, mdIdx, sources, ep, xSource, epCount, paths>>
auditVars == <<apc, artifact, config, readable, report, sourcesValid, exitCode, outcome>>
scanVars == <<docs, semanticSchemas, ruleDefinitions>>
valVars == <<manifest, validation>>
genVars == <<gpc, options, bunYaml, contract, prior, breaking, lintResults, written, gExit>>
watchVars == <<runs, ticks>>
syncVars == <<spc, syncConfig, rulesDir, edits, fileStates, events, timers,
              changeTimeout, since, checkDue, cycles, started>>
extVars == <<scanVars, valVars, genVars, watchVars, syncVars>>
vars == <<pc, mdIdx, sources, ep, xSource, epCount, paths,
          apc, artifact, config, readable, report, sourcesValid, exitCode, outcome,
          docs, semanticSchemas, ruleDefinitions, manifest, validation,
          gpc, options, bunYaml, contract, prior, breaking, lintResults, written, gExit,
          runs, ticks,
          spc, syncConfig, rulesDir, edits, fileStates, events, timers,
          changeTimeout, since, checkDue, cycles, started>>

----------------------------------------------------------------------------
(* Bounds *)

MaxDocs == 4        \* rule documents found under rules/
MaxEndpoints == 2   \* endpoints of the manifest
MaxPatterns == 2    \* patterns of an x-source list

----------------------------------------------------------------------------
(* Strings *)

\* String.prototype.includes
Includes(s, p) ==
  \E i \in 0..(Len(s) - Len(p)) : SubSeq(s, i + 1, i + Len(p)) = p

\* pattern.split('*')[0]: the text before the first '*'
SplitStar0(p) ==
  LET stars == {i \in 1..Len(p) : p[i] = "*"}
  IN IF stars = {} THEN p
     ELSE SubSeq(p, 1, (CHOOSE i \in stars : \A j \in stars : i <= j) - 1)

NoTag == <<>>
RuleTags == { <<"[", "G", "H", "]">>, <<"[", "G", "R", "]">>,
              <<"[", "G", "L", "]">>, <<"[", "S", "G", "]">> }
DocTags == RuleTags \cup {NoTag}

----------------------------------------------------------------------------
(* The tag -> file index: a JS object, kept as its entries in key order *)

HasKey(src, k) == \E i \in 1..Len(src) : src[i].tag = k
KeyPos(src, k) == CHOOSE i \in 1..Len(src) : src[i].tag = k
Lookup(src, k) == src[KeyPos(src, k)].file

\* sources[tag] = mdFile: a new key is appended, an existing key keeps its
\* position and takes the new value
SetKey(src, k, f) ==
  IF HasKey(src, k)
  THEN [src EXCEPT ![KeyPos(src, k)] = [tag |-> k, file |-> f]]
  ELSE Append(src, [tag |-> k, file |-> f])

\* Object.values(sources)
Values(src) == [i \in 1..Len(src) |-> src[i].file]

RECURSIVE FilterIncludes(_, _)
\* Object.entries(sources).filter(([tag]) => tag.includes(p)).map(([, file]) => file)
FilterIncludes(src, p) ==
  IF src = <<>> THEN <<>>
  ELSE IF Includes(Head(src).tag, p)
       THEN <<Head(src).file>> \o FilterIncludes(Tail(src), p)
       ELSE FilterIncludes(Tail(src), p)

\* slice(0, 4): the cap off by one
Slice4(s) == SubSeq(s, 1, IF Len(s) < 4 THEN Len(s) ELSE 4)

\* Array.prototype.slice(0, 3)
Slice3(s) == SubSeq(s, 1, IF Len(s) < 3 THEN Len(s) ELSE 3)

RECURSIVE Unique(_)
\* [...new Set(list)]: first occurrences, in order
Unique(s) ==
  IF s = <<>> THEN <<>>
  ELSE LET init == Unique(SubSeq(s, 1, Len(s) - 1))
           last == s[Len(s)]
       IN IF \E i \in 1..Len(init) : init[i] = last THEN init
          ELSE Append(init, last)

----------------------------------------------------------------------------
(* Endpoint declarations *)

\* ep['x-source']: absent, a string or an array of strings
XS(kind, str, list) == [kind |-> kind, str |-> str, list |-> list]
NoXS == XS("none", <<>>, <<>>)
\* ep.tags: absent or an array of strings
NoTags == [kind |-> "none", list |-> <<>>]
TagArray(l) == [kind |-> "array", list |-> l]

\* JS truthiness of ep['x-source']: undefined and '' are falsy, an array
\* (also an empty one) and a non-empty string are truthy
Truthy(xs) == xs.kind = "list" \/ (xs.kind = "string" /\ xs.str # <<>>)

SeqsUpTo(S, n) == UNION {[1..k -> S] : k \in 0..n}

StringPatterns == { <<>>, <<"G">>, <<"[", "G", "H", "]">>, <<"Z">> }
ListPatterns == { <<"G", "*">>, <<"[", "G", "H", "]">>, <<"Z">> }
EndpointTags == { <<"G">>, <<"H">>, <<"Z">> }

XSources ==
  {NoXS} \cup {XS("string", p, <<>>) : p \in StringPatterns}
         \cup {XS("list", <<>>, l) : l \in SeqsUpTo(ListPatterns, MaxPatterns)}
TagHints == {NoTags} \cup {TagArray(l) : l \in SeqsUpTo(EndpointTags, 2)}

Endpoint(path, method, xs, tags) ==
  [path |-> path, method |-> method, xs |-> xs, tags |-> tags]
NoEndpoint == Endpoint("", "", NoXS, NoTags)

\* the endpoints the source mapper is applied to
Endpoints == {Endpoint("/r", "GET", xs, t) : xs \in XSources, t \in TagHints}

----------------------------------------------------------------------------
(* Source mapper: resolveEndpointSources *)

\* every substring match of a pattern is returned, not the first only
ResolvePatternAllMatches(src, pattern) ==
  IF HasKey(src, pattern) THEN <<Lookup(src, pattern)>>
  ELSE FilterIncludes(src, SplitStar0(pattern))

\* one pattern of an x-source list: the callback of ep['x-source'].map;
\* <<>> stands for null, which filter(Boolean) removes
ResolvePattern(src, pattern) ==
  IF HasKey(src, pattern) THEN <<Lookup(src, pattern)>>
  ELSE LET matches == FilterIncludes(src, SplitStar0(pattern))
       IN IF Len(matches) > 0 THEN <<matches[1]>> ELSE <<>>

RECURSIVE MapPatterns(_, _)
\* ep['x-source'].map(...).filter(Boolean)
MapPatterns(src, list) ==
  IF list = <<>> THEN <<>>
  ELSE ResolvePattern(src, Head(list)) \o MapPatterns(src, Tail(list))

\* the string tier
ResolveString(src, str) ==
  IF HasKey(src, str) THEN <<Lookup(src, str)>>
  ELSE Slice3(FilterIncludes(src, str))

RECURSIVE RelevantSources(_, _)
\* the loop over ep.tags that pushes every match
RelevantSources(src, tags) ==
  IF tags = <<>> THEN <<>>
  ELSE FilterIncludes(src, Head(tags)) \o RelevantSources(src, Tail(tags))

\* the tag tier without `new Set`: a file matched by two tags stays twice
ResolveTagsNoSet(src, tags) == Slice3(RelevantSources(src, tags))

\* the tag tier
ResolveTags(src, tags) == Slice3(Unique(RelevantSources(src, tags)))

\* slice(3) in place of slice(0, 3): drops the first three entries
ResolveDefaultTail(src) == SubSeq(Values(src), 4, Len(Values(src)))

\* the final fallback
ResolveDefault(src) == Slice3(Values(src))

\* a tier that found nothing lets the next tier answer
resolveWithFallThrough(e, src) ==
  LET byList == IF Truthy(e.xs) /\ e.xs.kind = "list"
                THEN MapPatterns(src, e.xs.list) ELSE <<>>
      byString == IF Truthy(e.xs) /\ e.xs.kind = "string"
                  THEN ResolveString(src, e.xs.str) ELSE <<>>
      byTags == IF e.tags.kind = "array" THEN ResolveTags(src, e.tags.list) ELSE <<>>
  IN IF byList # <<>> THEN byList
     ELSE IF byString # <<>> THEN byString
     ELSE IF byTags # <<>> THEN byTags
     ELSE ResolveDefault(src)

resolveEndpointSources(e, src) ==
  IF Truthy(e.xs) /\ e.xs.kind = "list" THEN MapPatterns(src, e.xs.list)
  ELSE IF Truthy(e.xs) /\ e.xs.kind = "string" THEN ResolveString(src, e.xs.str)
  ELSE IF e.tags.kind = "array" THEN ResolveTags(src, e.tags.list)
  ELSE ResolveDefault(src)

----------------------------------------------------------------------------
(* Corpus scan: the loop of generateOpenAPI that fills the index *)

\* one iteration for the document at position f whose first tag match is tag
ScanOne(src, f, tag) == IF tag # NoTag THEN SetKey(src, tag, f) ELSE src

RECURSIVE ScanAll(_, _)
\* the whole loop over a corpus given as the documents' tags
ScanAll(corpus, n) ==
  IF n = 0 THEN <<>>
  ELSE ScanOne(ScanAll(corpus, n - 1), n, corpus[n])

\* every index the scan can build from at most MaxDocs documents
Indexes == {ScanAll(c, Len(c)) : c \in SeqsUpTo(DocTags, MaxDocs)}

----------------------------------------------------------------------------
(* Spec assembly: the endpoint loop of generateOpenAPI *)

\* method.toLowerCase()
ToLowerCase(m) ==
  CASE m = "GET" -> "get"
    [] m = "POST" -> "post"
    [] OTHER -> m

BasePath == "/api"
\* `${api.basePath}${ep.path}`
PathKey(e) == <<BasePath, e.path>>

\* spec.paths[path] = spec.paths[path] || {};
\* spec.paths[path][method] = { ..., 'x-source': xs }
SetOperation(ps, e, xs) ==
  LET path == PathKey(e)
      item == IF path \in DOMAIN ps THEN ps[path] ELSE <<>>
      op == [xsource |-> xs]
  IN (path :> ((ToLowerCase(e.method) :> op) @@ item)) @@ ps

\* the endpoints a manifest is made of
ManifestMethods == {"GET", "get", "POST"}
ManifestXS == { NoXS, XS("string", <<"G">>, <<>>), XS("string", <<"Z">>, <<>>),
                XS("list", <<>>, << <<"Z">> >>) }
ManifestTags == { NoTags, TagArray(<< <<"G">> >>), TagArray(<< <<"Z">> >>) }
ManifestEndpoints ==
  {Endpoint("/r", m, xs, t) : m \in ManifestMethods, xs \in ManifestXS, t \in ManifestTags}

\* every operation of spec.paths, as <<path, method>>
Operations(ps) == {<<p, m>> \in (DOMAIN ps) \X {"get", "post"} : m \in DOMAIN ps[p]}

----------------------------------------------------------------------------
(* State of the other programs while one of them runs *)

ScanIdle ==
  /\ docs = <<>>
  /\ semanticSchemas = <<>>
  /\ ruleDefinitions = <<>>

ValIdle ==
  /\ manifest = <<>>
  /\ validation = <<>>

GenIdle ==
  /\ gpc = "idle"
  /\ options = <<>>
  /\ bunYaml = <<>>
  /\ contract = <<>>
  /\ prior = <<>>
  /\ breaking = <<>>
  /\ lintResults = <<>>
  /\ written = FALSE
  /\ gExit = -1

WatchIdle ==
  /\ runs = <<>>
  /\ ticks = 0

SyncIdle ==
  /\ spc = "idle"
  /\ syncConfig = <<>>
  /\ rulesDir = <<>>
  /\ edits = 0
  /\ fileStates = <<>>
  /\ events = 0
  /\ timers = {}
  /\ changeTimeout = 0
  /\ since = <<>>
  /\ checkDue = 0
  /\ cycles = <<>>
  /\ started = <<>>

ExtIdle == ScanIdle /\ ValIdle /\ GenIdle /\ WatchIdle /\ SyncIdle

----------------------------------------------------------------------------
(* Auditor state while the compiler runs *)

NoReport == [totalEndpoints |-> 0, tracedEndpoints |-> 0, orphans |-> 0,
             percentNum |-> 0, percentDen |-> 1, passed |-> FALSE]
DefaultConfig == [minThreshold |-> 95, strict |-> FALSE]

AuditIdle ==
  /\ apc = "idle"
  /\ artifact = <<>>
  /\ config = DefaultConfig
  /\ readable = {}
  /\ report = NoReport
  /\ sourcesValid = TRUE
  /\ exitCode = -1
  /\ outcome = "NONE"

----------------------------------------------------------------------------
(* Compiler: generateOpenAPI from the corpus scan to the assembled paths *)

Init ==
  /\ pc = "scan"
  /\ mdIdx = 0
  /\ sources = <<>>
  /\ ep = NoEndpoint
  /\ xSource = <<>>
  /\ epCount = 0
  /\ paths = <<>>
  /\ AuditIdle
  /\ ExtIdle

\* one iteration of `for (const mdFile of mdFiles)`: the document read is
\* an input, given by its first tag match (NoTag when there is none)
ScanFile ==
  /\ pc = "scan"
  /\ mdIdx < MaxDocs
  /\ \E tag \in DocTags :
       sources' = ScanOne(sources, mdIdx + 1, tag)
  /\ mdIdx' = mdIdx + 1
  /\ UNCHANGED <<pc, ep, xSource, epCount, paths>>
  /\ UNCHANGED auditVars
  /\ UNCHANGED extVars

\* mdFiles is exhausted
EndScan ==
  /\ pc = "scan"
  /\ pc' = "map"
  /\ UNCHANGED <<mdIdx, sources, ep, xSource, epCount, paths>>
  /\ UNCHANGED auditVars
  /\ UNCHANGED extVars

\* one iteration of `for (const ep of api.endpoints)`
MapEndpoint ==
  /\ pc = "map"
  /\ epCount < MaxEndpoints
  /\ \E e \in ManifestEndpoints :
       LET xs == resolveEndpointSources(e, sources)
       IN /\ ep' = e
          /\ xSource' = xs
          /\ paths' = SetOperation(paths, e, xs)
  /\ epCount' = epCount + 1
  /\ UNCHANGED <<pc, mdIdx, sources>>
  /\ UNCHANGED auditVars
  /\ UNCHANGED extVars

\* api.endpoints is exhausted
EndMap ==
  /\ pc = "map"
  /\ pc' = "assembled"
  /\ UNCHANGED <<mdIdx, sources, ep, xSource, epCount, paths>>
  /\ UNCHANGED auditVars
  /\ UNCHANGED extVars

Next == ScanFile \/ EndScan \/ MapEndpoint \/ EndMap

Spec == Init /\ [][Next]_vars

----------------------------------------------------------------------------
(* Source mapper applied to one endpoint and one index *)

ResolveInit ==
  /\ pc = "resolve"
  /\ mdIdx = 0
  /\ sources \in Indexes
  /\ ep \in Endpoints
  /\ xSource = <<>>
  /\ epCount = 0
  /\ paths = <<>>
  /\ AuditIdle
  /\ ExtIdle

Resolve ==
  /\ pc = "resolve"
  /\ xSource' = resolveEndpointSources(ep, sources)
  /\ pc' = "resolved"
  /\ UNCHANGED <<mdIdx, sources, ep, epCount, paths>>
  /\ UNCHANGED auditVars
  /\ UNCHANGED extVars

ResolveNext == Resolve

ResolveSpec == ResolveInit /\ [][ResolveNext]_vars

----------------------------------------------------------------------------
(* Traceability auditor *)

MaxPaths == 2       \* paths of the audited contract document

Thresholds == {50, 95, 100}      \* values given to --min
AuditMethods == {"get", "post"}
AuditFiles == {1, 2}

\* operation['x-source'] in the audited document: absent or an array
NoSources == [kind |-> "none", list |-> <<>>]
SourceArray(l) == [kind |-> "array", list |-> l]
OpSources == {NoSources, SourceArray(<<>>), SourceArray(<<1>>), SourceArray(<<1, 2>>)}

PathItems == UNION {[M -> OpSources] : M \in SUBSET AuditMethods}
\* spec.paths of the documents handed to the auditor
Artifacts == UNION {[1..k -> PathItems] : k \in 0..MaxPaths}

\* every operation of the document, as <<path, method>>
AuditOps(ps) == {<<p, m>> \in (DOMAIN ps) \X AuditMethods : m \in DOMAIN ps[p]}

\* const sources = operation['x-source'] || [];
\* const hasSources = Array.isArray(sources) && sources.length > 0;
HasSources(op) == op.kind = "array" /\ Len(op.list) > 0

\* a >= b for a = num / den, den > 0
GreaterEq(num, den, b) == num >= b * den

analyzeTraceability(ps) ==
  LET totalEndpoints == Cardinality(DOMAIN ps)
      traced == {o \in AuditOps(ps) : HasSources(ps[o[1]][o[2]])}
      tracedEndpoints == Cardinality(traced)
      orphanEndpoints == AuditOps(ps) \ traced
      \* totalEndpoints > 0 ? (tracedEndpoints / totalEndpoints) * 100 : 0
      num == IF totalEndpoints > 0 THEN tracedEndpoints * 100 ELSE 0
      den == IF totalEndpoints > 0 THEN totalEndpoints ELSE 1
  IN [totalEndpoints |-> totalEndpoints,
      tracedEndpoints |-> tracedEndpoints,
      orphans |-> Cardinality(orphanEndpoints),
      percentNum |-> num,
      percentDen |-> den,
      passed |-> GreaterEq(num, den, 95)]

\* the distinct source paths validateSourceFiles tries to read
CheckedFiles(ps) ==
  UNION {{ps[o[1]][o[2]].list[i] : i \in 1..Len(ps[o[1]][o[2]].list)} :
           o \in {q \in AuditOps(ps) : HasSources(ps[q[1]][q[2]])}}

validateSourceFiles(ps, cfg, disk) ==
  IF ~cfg.strict THEN TRUE
  ELSE \A f \in CheckedFiles(ps) : f \in disk

CompilerIdle ==
  /\ pc = "idle"
  /\ mdIdx = 0
  /\ sources = <<>>
  /\ ep = NoEndpoint
  /\ xSource = <<>>
  /\ epCount = 0
  /\ paths = <<>>

AuditInit ==
  /\ CompilerIdle
  /\ apc = "start"
  /\ artifact = <<>>
  /\ config = DefaultConfig
  /\ readable = {}
  /\ report = NoReport
  /\ sourcesValid = TRUE
  /\ exitCode = -1
  /\ outcome = "NONE"
  /\ ExtIdle

\* parseArgs: --min and --strict are inputs
ParseArgs ==
  /\ apc = "start"
  /\ \E t \in Thresholds, s \in BOOLEAN :
       config' = [minThreshold |-> t, strict |-> s]
  /\ apc' = "args"
  /\ UNCHANGED <<artifact, readable, report, sourcesValid, exitCode, outcome>>
  /\ UNCHANGED compVars
  /\ UNCHANGED extVars

\* loadSpec returns the parsed document
LoadSpecOk ==
  /\ apc = "args"
  /\ artifact' \in Artifacts
  /\ apc' = "LOADED"
  /\ UNCHANGED <<config, readable, report, sourcesValid, exitCode, outcome>>
  /\ UNCHANGED compVars
  /\ UNCHANGED extVars

\* loadSpec cannot read or parse the file: process.exit(1)
LoadSpecFail ==
  /\ apc = "args"
  /\ apc' = "EXITED"
  /\ exitCode' = 1
  /\ outcome' = "LOAD_FAIL"
  /\ UNCHANGED <<artifact, config, readable, report, sourcesValid>>
  /\ UNCHANGED compVars
  /\ UNCHANGED extVars

AnalyzeTraceability ==
  /\ apc = "LOADED"
  /\ report' = analyzeTraceability(artifact)
  /\ apc' = "ANALYZED"
  /\ UNCHANGED <<artifact, config, readable, sourcesValid, exitCode, outcome>>
  /\ UNCHANGED compVars
  /\ UNCHANGED extVars

\* validateSourceFiles; the files that can be read are the disk's state
ValidateSourceFiles ==
  /\ apc = "ANALYZED"
  /\ \E disk \in SUBSET AuditFiles :
       /\ readable' = disk
       /\ sourcesValid' = validateSourceFiles(artifact, config, disk)
  /\ apc' = "SOURCES_VALIDATED"
  /\ UNCHANGED <<artifact, config, report, exitCode, outcome>>
  /\ UNCHANGED compVars
  /\ UNCHANGED extVars

\* generateReport only prints
GenerateReport ==
  /\ apc = "SOURCES_VALIDATED"
  /\ apc' = "REPORTED"
  /\ UNCHANGED <<artifact, config, readable, report, sourcesValid, exitCode, outcome>>
  /\ UNCHANGED compVars
  /\ UNCHANGED extVars

\* the exit sites of auditTraceability
ExitCodeOf(rep, cfg, valid) ==
  LET thresholdPassed == GreaterEq(rep.percentNum, rep.percentDen, cfg.minThreshold)
  IN IF ~rep.passed \/ ~thresholdPassed THEN 1
     ELSE IF cfg.strict /\ ~valid THEN 2
     ELSE 0

OutcomeOf(code) ==
  CASE code = 1 -> "THRESHOLD_FAIL"
    [] code = 2 -> "STRICT_FAIL"
    [] OTHER -> "PASS"

Exit ==
  /\ apc = "REPORTED"
  /\ exitCode' = ExitCodeOf(report, config, sourcesValid)
  /\ outcome' = OutcomeOf(exitCode')
  /\ apc' = "EXITED"
  /\ UNCHANGED <<artifact, config, readable, report, sourcesValid>>
  /\ UNCHANGED compVars
  /\ UNCHANGED extVars

AuditNext ==
  \/ ParseArgs
  \/ LoadSpecOk
  \/ LoadSpecFail
  \/ AnalyzeTraceability
  \/ ValidateSourceFiles
  \/ GenerateReport
  \/ Exit

AuditSpec == AuditInit /\ [][AuditNext]_vars

----------------------------------------------------------------------------
(* Properties of the auditor (AuditSpec) *)

\* the run loaded a document and reached an exit site of auditTraceability
AuditDone == apc = "EXITED" /\ outcome # "LOAD_FAIL"

\* the percentage the auditor computed meets the configured threshold
ComputedMeetsThreshold ==
  GreaterEq(report.percentNum, report.percentDen, config.minThreshold)

\* every source path referenced by a traced operation can be read
AllReferencedReadable == \A f \in CheckedFiles(artifact) : f \in readable

\* N: the operations of the document; T: those with non-empty provenance
TotalOps == Cardinality(AuditOps(artifact))
TracedOps ==
  Cardinality({o \in AuditOps(artifact) : HasSources(artifact[o[1]][o[2]])})

\* C1: a run that loads the artifact ends in PASS (exit code 0) if and only
\* if the computed percentage is >= the configured threshold and (strict
\* mode is off or every referenced source file can be read).
C1_PassIffThresholdAndSources ==
  AuditDone =>
    ((exitCode = 0 /\ outcome = "PASS")
       <=> (ComputedMeetsThreshold /\ (~config.strict \/ AllReferencedReadable)))

\* C2: whenever 100 * T / N is below the configured threshold the run ends
\* in THRESHOLD_FAIL with exit code 1, in strict and in non-strict mode,
\* also when referenced source files are missing.
C2_BelowThresholdExitsOne ==
  (AuditDone /\ TotalOps > 0 /\ 100 * TracedOps < config.minThreshold * TotalOps)
    => (exitCode = 1 /\ outcome = "THRESHOLD_FAIL")

\* C3: in strict mode, when the percentage meets the configured threshold
\* and a referenced source path cannot be read, the run ends in STRICT_FAIL
\* with exit code 2.
C3_StrictMissingExitsTwo ==
  (AuditDone /\ config.strict /\ ComputedMeetsThreshold /\ ~AllReferencedReadable)
    => (exitCode = 2 /\ outcome = "STRICT_FAIL")

\* C4: each exit code identifies exactly one outcome: 0 only PASS, 1 only
\* THRESHOLD_FAIL (percentage below the configured threshold), 2 only
\* STRICT_FAIL (missing source files); a failure to load the artifact does
\* not share its exit code with another outcome.
C4_ExitCodesIdentifyOutcome ==
  apc = "EXITED" =>
    /\ exitCode = 0 => outcome = "PASS"
    /\ exitCode = 1 => (outcome = "THRESHOLD_FAIL" /\ ~ComputedMeetsThreshold)
    /\ exitCode = 2 => (outcome = "STRICT_FAIL" /\ ~AllReferencedReadable)
    /\ outcome = "LOAD_FAIL" => exitCode \notin {0, 1, 2}

\* C5: the computed percentage equals 100 * T / N for N operations of which
\* T have a non-empty x-source list, is 0 for N = 0, and never exceeds 100.
C5_PercentIsTracedOverOperations ==
  apc = "ANALYZED" =>
    /\ TotalOps > 0 =>
         report.percentNum * TotalOps = 100 * TracedOps * report.percentDen
    /\ TotalOps = 0 => report.percentNum = 0
    /\ report.percentNum <= 100 * report.percentDen

----------------------------------------------------------------------------
(* Properties of the source mapper (ResolveSpec) *)

\* the endpoint declares an x-source list, an x-source string, a tag array
DeclaresList == Truthy(ep.xs) /\ ep.xs.kind = "list"
DeclaresString == Truthy(ep.xs) /\ ep.xs.kind = "string"
DeclaresTags == ep.tags.kind = "array"
NoHints == ~Truthy(ep.xs) /\ ~DeclaresTags

\* the index entries a hint of each tier selects
ListMatch(entry, pattern) ==
  entry.tag = pattern \/ Includes(entry.tag, SplitStar0(pattern))
MatchedByList(entry) ==
  \E i \in 1..Len(ep.xs.list) : ListMatch(entry, ep.xs.list[i])
MatchedByString(entry) == Includes(entry.tag, ep.xs.str)
MatchedByTags(entry) ==
  \E i \in 1..Len(ep.tags.list) : Includes(entry.tag, ep.tags.list[i])

Entries == {sources[i] : i \in 1..Len(sources)}
Result == {xSource[i] : i \in 1..Len(xSource)}
\* every returned path is the file of an index entry that satisfies M
OnlyFrom(M(_)) == \A f \in Result : \E entry \in Entries : entry.file = f /\ M(entry)
\* some entry satisfies M, and then something is returned
AnswersWhen(M(_)) == (\E entry \in Entries : M(entry)) => xSource # <<>>

FirstThree ==
  [i \in 1..(IF Len(sources) < 3 THEN Len(sources) ELSE 3) |-> sources[i].file]

\* C6: an endpoint without x-source and tags, on a non-empty index, gets a
\* non-empty list of at most 3 paths: the first (up to 3) entries of the
\* index in index order; every result of the string, tag and default tiers
\* has length <= 3.
C6_DefaultTierFirstThree ==
  pc = "resolved" =>
    /\ (NoHints /\ sources # <<>>) =>
         (xSource # <<>> /\ Len(xSource) <= 3 /\ xSource = FirstThree)
    /\ ~DeclaresList => Len(xSource) <= 3

C6_Witness ==
  pc = "resolved" /\ NoHints /\ Len(sources) = 4 /\ Len(xSource) = 3

\* C8: the returned list never contains the same rule-document path twice,
\* in every tier.
C8_NoDuplicatePaths ==
  pc = "resolved" =>
    \A i, j \in 1..Len(xSource) : xSource[i] = xSource[j] => i = j

\* C9: strict precedence: a declared x-source list alone decides the
\* result, else a declared x-source string, else the declared tags; the
\* first three index entries are returned only without x-source and tags; a
\* declared tier that matches nothing leaves the result empty.
C9_StrictPrecedence ==
  pc = "resolved" =>
    /\ DeclaresList => (OnlyFrom(MatchedByList) /\ AnswersWhen(MatchedByList))
    /\ DeclaresString => (OnlyFrom(MatchedByString) /\ AnswersWhen(MatchedByString))
    /\ (~Truthy(ep.xs) /\ DeclaresTags) =>
         (OnlyFrom(MatchedByTags) /\ AnswersWhen(MatchedByTags))
    /\ NoHints => xSource = FirstThree

\* a declared string that matches nothing, tags that would match, an empty result
C9_Witness ==
  /\ pc = "resolved"
  /\ DeclaresString
  /\ DeclaresTags
  /\ \E entry \in Entries : MatchedByTags(entry)
  /\ ~\E entry \in Entries : MatchedByString(entry)
  /\ xSource = <<>>

----------------------------------------------------------------------------
(* Properties of the compiled contract (Spec) *)

\* the operation the endpoint loop wrote for ep
OperationOfEp == paths[PathKey(ep)][ToLowerCase(ep.method)]

\* the highest-precedence hint ep declares selects no index entry
DeclaredHintMatchesNothing ==
  IF DeclaresList THEN ~\E entry \in Entries : MatchedByList(entry)
  ELSE IF DeclaresString THEN ~\E entry \in Entries : MatchedByString(entry)
  ELSE DeclaresTags /\ ~\E entry \in Entries : MatchedByTags(entry)

\* C7 as stated: with a non-empty index every operation of the compiled
\* contract has a non-empty provenance list, whatever the endpoint's
\* x-source and tags are.
C7_EveryOperationTraced ==
  (pc \in {"map", "assembled"} /\ sources # <<>>) =>
    \A o \in Operations(paths) : paths[o[1]][o[2]].xsource # <<>>

\* C7 amended: with a non-empty index every endpoint that declares neither
\* x-source nor tags receives a non-empty provenance list in the compiled
\* contract; an operation's provenance is empty only when the index is
\* empty or the highest-precedence hint its endpoint declares matches
\* nothing (lower tiers are not consulted).
C7_UnhintedOperationTraced ==
  (pc \in {"map", "assembled"} /\ epCount > 0) =>
    /\ (NoHints /\ sources # <<>>) => OperationOfEp.xsource # <<>>
    /\ OperationOfEp.xsource = <<>> => (sources = <<>> \/ DeclaredHintMatchesNothing)

C7_Witness ==
  /\ pc = "assembled"
  /\ epCount > 0
  /\ NoHints
  /\ sources # <<>>
  /\ OperationOfEp.xsource # <<>>

----------------------------------------------------------------------------
(* Rule corpus scanner: parseSemanticRules and the index loop *)

MaxScanDocs == 2    \* rule documents of a scanned corpus

\* a match of /\[([A-Z]{3}-[A-Z]+-[0-9]{3})\]/ on an abbreviated token:
\* brackets around upper-case letters
UpperCase == {"G", "H", "S", "L", "R"}
IsTag(tok) ==
  /\ Len(tok) >= 3
  /\ tok[1] = "["
  /\ tok[Len(tok)] = "]"
  /\ \A i \in 2..(Len(tok) - 1) : tok[i] \in UpperCase

\* content.match(regex): the first match in the text, NoTag for null
FirstTag(content) ==
  LET hits == {i \in 1..Len(content) : IsTag(content[i])}
  IN IF hits = {} THEN NoTag
     ELSE content[CHOOSE i \in hits : \A j \in hits : i <= j]

\* the text of a rule document, as the bracketed tokens it contains
LowerToken == <<"[", "g", "]">>
Contents == { <<>>,
              << <<"[", "G", "H", "]">> >>,
              << <<"[", "S", "G", "]">>, <<"[", "G", "H", "]">> >>,
              << LowerToken, <<"[", "G", "H", "]">> >>,
              << LowerToken >> }

\* a rule document: whether file(mdFile).text() succeeds, its text, its
\* frontmatter (absent, unparseable, or declaring schema P and definition D)
\* and its fenced json block (absent, unparseable, or a schema titled J)
Doc(canRead, content, preamble, json) ==
  [readable |-> canRead, content |-> content, preamble |-> preamble, json |-> json,
   pname |-> "P", jname |-> "J"]
UnreadableDoc == Doc(FALSE, <<>>, "none", "none")
Docs ==
  {UnreadableDoc} \cup
  {Doc(TRUE, c, p, j) : c \in Contents, p \in {"none", "bad", "good"},
                        j \in {"none", "bad", "good"}}

DefinitionId == <<"D">>

\* obj[k] = v on a registry kept as a function
Put(reg, k, v) == (k :> v) @@ reg

\* frontmatter handling: a parse failure is caught and only warned about
ParsePreamble(regs, f, doc) ==
  IF doc.preamble = "good"
  THEN [schemas |-> Put(regs.schemas, doc.pname, f),
        defs |-> Put(regs.defs, DefinitionId, f)]
  ELSE regs

\* fenced json blocks: invalid JSON is skipped
ParseJson(regs, f, doc) ==
  IF doc.json = "good"
  THEN [regs EXCEPT !.schemas = Put(regs.schemas, doc.jname, f)]
  ELSE regs

\* the tag of the document becomes a rule definition unless one exists
ParseTag(regs, f, doc) ==
  LET tag == FirstTag(doc.content)
  IN IF tag # NoTag /\ tag \notin DOMAIN regs.defs
     THEN [regs EXCEPT !.defs = Put(regs.defs, tag, f)]
     ELSE regs

\* a failing frontmatter or json block ends the handling of the document
ParseOneNoInnerCatch(regs, f, doc) ==
  IF ~doc.readable \/ doc.preamble = "bad" THEN regs
  ELSE IF doc.json = "bad" THEN ParsePreamble(regs, f, doc)
  ELSE ParseTag(ParseJson(ParsePreamble(regs, f, doc), f, doc), f, doc)

\* one iteration of the loop of parseSemanticRules; an unreadable document
\* is caught by the outer try and contributes nothing
ParseOne(regs, f, doc) ==
  IF ~doc.readable THEN regs
  ELSE ParseTag(ParseJson(ParsePreamble(regs, f, doc), f, doc), f, doc)

\* one iteration of the index loop of generateOpenAPI on a document
ScanDocOne(src, f, doc) ==
  IF ~doc.readable THEN src
  ELSE ScanOne(src, f, FirstTag(doc.content))

ScanInit ==
  /\ pc = "parse"
  /\ mdIdx = 0
  /\ sources = <<>>
  /\ ep = NoEndpoint
  /\ xSource = <<>>
  /\ epCount = 0
  /\ paths = <<>>
  /\ docs \in SeqsUpTo(Docs, MaxScanDocs)
  /\ semanticSchemas = <<>>
  /\ ruleDefinitions = <<>>
  /\ AuditIdle
  /\ ValIdle /\ GenIdle /\ WatchIdle /\ SyncIdle

\* parseSemanticRules: `for (const mdFile of mdFiles)`
ParseDoc ==
  /\ pc = "parse"
  /\ mdIdx < Len(docs)
  /\ LET regs == ParseOne([schemas |-> semanticSchemas, defs |-> ruleDefinitions],
                          mdIdx + 1, docs[mdIdx + 1])
     IN /\ semanticSchemas' = regs.schemas
        /\ ruleDefinitions' = regs.defs
  /\ mdIdx' = mdIdx + 1
  /\ UNCHANGED <<pc, sources, ep, xSource, epCount, paths, docs>>
  /\ UNCHANGED <<auditVars, valVars, genVars, watchVars, syncVars>>

\* parseSemanticRules returns, the index loop starts
EndParse ==
  /\ pc = "parse"
  /\ mdIdx = Len(docs)
  /\ pc' = "index"
  /\ mdIdx' = 0
  /\ UNCHANGED <<sources, ep, xSource, epCount, paths>>
  /\ UNCHANGED <<scanVars, auditVars, valVars, genVars, watchVars, syncVars>>

\* generateOpenAPI: `for (const mdFile of mdFiles)`
ScanDoc ==
  /\ pc = "index"
  /\ mdIdx < Len(docs)
  /\ sources' = ScanDocOne(sources, mdIdx + 1, docs[mdIdx + 1])
  /\ mdIdx' = mdIdx + 1
  /\ UNCHANGED <<pc, ep, xSource, epCount, paths>>
  /\ UNCHANGED <<scanVars, auditVars, valVars, genVars, watchVars, syncVars>>

EndScanDocs ==
  /\ pc = "index"
  /\ mdIdx = Len(docs)
  /\ pc' = "scanned"
  /\ UNCHANGED <<mdIdx, sources, ep, xSource, epCount, paths>>
  /\ UNCHANGED <<scanVars, auditVars, valVars, genVars, watchVars, syncVars>>

ScanNext == ParseDoc \/ EndParse \/ ScanDoc \/ EndScanDocs

ScanSpec == ScanInit /\ [][ScanNext]_vars

----------------------------------------------------------------------------
(* Properties of the scanner (ScanSpec) *)

DocIds == 1..Len(docs)
\* the documents that can be read and whose text holds a tag match
Tagged(i) == docs[i].readable /\ FirstTag(docs[i].content) # NoTag
\* the last document of a set, 0 for none
LastOf(S) == IF S = {} THEN 0 ELSE CHOOSE i \in S : \A j \in S : j <= i
FirstOf(S) == IF S = {} THEN 0 ELSE CHOOSE i \in S : \A j \in S : i <= j

\* C11: after the scan the index maps the first matching tag of every
\* document that contains a match to that document; a document without a
\* match adds no entry; each document contributes at most one entry.
C11_IndexHoldsEveryTaggedDocument ==
  pc = "scanned" =>
    /\ \A i \in DocIds : Tagged(i) =>
         (HasKey(sources, FirstTag(docs[i].content))
            /\ Lookup(sources, FirstTag(docs[i].content)) = i)
    /\ \A k \in 1..Len(sources) :
         (sources[k].file \in DocIds /\ Tagged(sources[k].file)
            /\ FirstTag(docs[sources[k].file].content) = sources[k].tag)
    /\ \A i \in DocIds : Cardinality({k \in 1..Len(sources) : sources[k].file = i}) <= 1

\* what the readable documents and their well-formed parts contribute
GoodPreamble == {i \in DocIds : docs[i].readable /\ docs[i].preamble = "good"}
GoodJson == {i \in DocIds : docs[i].readable /\ docs[i].json = "good"}
WithTag(t) == {i \in DocIds : Tagged(i) /\ FirstTag(docs[i].content) = t}
AllTags == {FirstTag(docs[i].content) : i \in {j \in DocIds : Tagged(j)}}

----------------------------------------------------------------------------
(* Manifest validation: validateBunYamlStructure *)

\* the presence of the fields the validator looks at; a field below an
\* absent parent is absent
EndpointShapes == [path : BOOLEAN, method : BOOLEAN, summary : BOOLEAN]
ArrayKinds == {"absent", "scalar", "array"}
Manifests ==
  { m \in [version : BOOLEAN, rules : BOOLEAN, header : BOOLEAN, schema : BOOLEAN,
           scope : ArrayKinds, grep : BOOLEAN, patterns : BOOLEAN,
           api : BOOLEAN, basePath : BOOLEAN, endpoints : ArrayKinds,
           eps : SeqsUpTo(EndpointShapes, MaxEndpoints),
           openapi : BOOLEAN, info : BOOLEAN, title : BOOLEAN] :
      /\ (~m.rules => ~m.header /\ ~m.api)
      /\ (~m.header => ~m.schema /\ ~m.grep)
      /\ (~m.schema => m.scope = "absent")
      /\ (~m.grep => ~m.patterns)
      /\ (~m.api => ~m.basePath /\ m.endpoints = "absent" /\ ~m.openapi)
      /\ (m.endpoints # "array" => m.eps = <<>>)
      /\ (~m.openapi => ~m.info)
      /\ (~m.info => ~m.title) }

Missing(field) == [field |-> field, index |-> -1]
EndpointMissing(field, i) == [field |-> field, index |-> i]
\* `if (cond) errors.push(e)`
PushIf(errors, cond, e) == IF cond THEN Append(errors, e) ELSE errors

\* the result of a call: the list returned, or the TypeError thrown by a
\* property read on undefined
Returned(errors) == [threw |-> FALSE, errors |-> errors]
Thrown == [threw |-> TRUE, errors |-> <<>>]

RECURSIVE EndpointErrors(_, _, _)
\* endpoints.forEach((ep, index) => ...), index counted from 0
EndpointErrors(errors, eps, i) ==
  IF i > Len(eps) THEN errors
  ELSE LET e1 == PushIf(errors, ~eps[i].path, EndpointMissing("path", i - 1))
           e2 == PushIf(e1, ~eps[i].method, EndpointMissing("method", i - 1))
           e3 == PushIf(e2, ~eps[i].summary, EndpointMissing("summary", i - 1))
       IN EndpointErrors(e3, eps, i + 1)

\* `if (bunYaml.rules.api.openapi) { ... }`
ValidateOpenapi(m, errors) ==
  IF ~m.openapi THEN Returned(errors)
  ELSE IF ~m.info THEN Thrown
  ELSE Returned(PushIf(errors, ~m.title, Missing("rules.api.openapi.info.title")))

\* `if (bunYaml.rules.api) { ... }`
ValidateApi(m, errors) ==
  IF ~m.api THEN Returned(errors)
  ELSE LET e1 == PushIf(errors, ~m.basePath, Missing("rules.api.basePath"))
           e2 == PushIf(e1, m.endpoints # "array", Missing("rules.api.endpoints"))
           e3 == IF m.endpoints = "array" THEN EndpointErrors(e2, m.eps, 1) ELSE e2
       IN ValidateOpenapi(m, e3)

\* `if (bunYaml.rules.header) { ... }` followed by the api part
ValidateHeader(m, errors) ==
  IF ~m.header THEN ValidateApi(m, errors)
  ELSE IF ~m.schema THEN Thrown
  ELSE LET e1 == PushIf(errors, m.scope # "array", Missing("rules.header.schema.scope"))
           e2 == PushIf(e1, ~m.grep \/ ~m.patterns, Missing("rules.header.grep.patterns"))
       IN ValidateApi(m, e2)

validateBunYamlStructure(m) ==
  LET e1 == PushIf(<<>>, ~m.version, Missing("version"))
      e2 == PushIf(e1, ~m.rules, Missing("rules"))
  IN IF ~m.rules THEN Thrown
     ELSE LET e3 == PushIf(e2, ~m.header, Missing("rules.header"))
              e4 == PushIf(e3, ~m.api, Missing("rules.api"))
          IN ValidateHeader(m, e4)

ValidateInit ==
  /\ CompilerIdle
  /\ AuditIdle
  /\ ScanIdle /\ GenIdle /\ WatchIdle /\ SyncIdle
  /\ manifest \in Manifests
  /\ validation = <<>>

\* generateOpenAPI: `const validationErrors = validateBunYamlStructure(bunYaml)`
Validate ==
  /\ validation = <<>>
  /\ validation' = validateBunYamlStructure(manifest)
  /\ UNCHANGED manifest
  /\ UNCHANGED <<compVars, auditVars, scanVars, genVars, watchVars, syncVars>>

ValidateNext == Validate

ValidateSpec == ValidateInit /\ [][ValidateNext]_vars

----------------------------------------------------------------------------
(* Properties of the validator (ValidateSpec) *)

Validated == validation # <<>>

\* one of the fields the manifest must carry is absent
RequiredFieldAbsent(m) ==
  \/ ~m.version
  \/ m.scope # "array"
  \/ ~m.patterns
  \/ m.endpoints # "array"
  \/ \E i \in 1..Len(m.eps) : ~m.eps[i].path \/ ~m.eps[i].method \/ ~m.eps[i].summary
  \/ ~m.title

\* C12: the validator returns its list of violations whatever is missing,
\* never throwing at the first missing section, and the list is non-empty
\* whenever a required field (version, scope list, grep patterns, endpoint
\* list, an endpoint's path, method or summary, title) is absent.
C12_ReturnsAllViolations ==
  Validated =>
    /\ ~validation.threw
    /\ RequiredFieldAbsent(manifest) => validation.errors # <<>>

----------------------------------------------------------------------------
(* Breaking change detection: detectBreakingChanges *)

\* a response object as its entries in key order, which is what
\* JSON.stringify prints
Response(k1, v1, k2, v2) == << <<k1, v1>>, <<k2, v2>> >>
ResponseA == Response("description", "d1", "schema", "s1")
DescriptionEdited == Response("description", "d2", "schema", "s1")
SchemaEdited == Response("description", "d1", "schema", "s2")
KeysSwapped == Response("schema", "s1", "description", "d1")

\* the responses of an operation, by status code
ResponseSets ==
  { <<>>,
    "200" :> ResponseA,
    "200" :> DescriptionEdited,
    "200" :> SchemaEdited,
    "200" :> KeysSwapped,
    ("200" :> ResponseA) @@ ("404" :> ResponseA) }

Op(responses) == [responses |-> responses]

\* path items of the compared contracts, by method
DiffItems ==
  { "get" :> Op(r) : r \in ResponseSets } \cup
  { "post" :> Op("200" :> ResponseA) } \cup
  { ("get" :> Op(r)) @@ ("post" :> Op("200" :> ResponseA)) : r \in ResponseSets }

PathA == <<"/", "a">>
PathB == <<"/", "{", "b", "}">>

\* the `paths` object of a contract
DiffPaths ==
  { <<>> } \cup
  { PathA :> i : i \in DiffItems } \cup
  { PathB :> ("get" :> Op("200" :> ResponseA)) } \cup
  { (PathA :> i) @@ (PathB :> ("get" :> Op("200" :> ResponseA))) : i \in DiffItems }

\* the prior contract file: its format, whether it has a `paths` key, and
\* its paths
PriorSpec(format, hasPaths, ps) == [format |-> format, hasPaths |-> hasPaths, paths |-> ps]
Priors ==
  { PriorSpec(f, TRUE, ps) : f \in {"json", "yaml"}, ps \in DiffPaths } \cup
  { PriorSpec("json", FALSE, <<>>) }

\* previousSpecText.includes('{'): JSON text always has a brace; block YAML
\* has one when a path is templated or an object is empty (`responses: {}`)
TextIncludesBrace(pr) ==
  \/ pr.format = "json"
  \/ \E p \in DOMAIN pr.paths :
       \/ \E i \in 1..Len(p) : p[i] = "{"
       \/ \E m \in DOMAIN pr.paths[p] : pr.paths[p][m].responses = <<>>

\* the text goes to JSON.parse when it holds a brace, and YAML is no JSON
ParseThrows(pr) == TextIncludesBrace(pr) /\ pr.format = "yaml"

\* Object.keys in a fixed order
PathOrder == <<PathA, PathB>>
OpOrder == << <<PathA, "get">>, <<PathA, "post">>, <<PathB, "get">>, <<PathB, "post">> >>
CodeOrder ==
  << <<PathA, "get", "200">>, <<PathA, "get", "404">>,
     <<PathA, "post", "200">>, <<PathA, "post", "404">>,
     <<PathB, "get", "200">>, <<PathB, "get", "404">>,
     <<PathB, "post", "200">>, <<PathB, "post", "404">> >>

Change(kind, path, method, code) ==
  [kind |-> kind, path |-> path, method |-> method, code |-> code]
CompareError == Change("ERROR", <<>>, "", "")

\* op.toUpperCase()
ToUpperCase(m) ==
  CASE m = "get" -> "GET"
    [] m = "post" -> "POST"
    [] OTHER -> m

RECURSIVE MapSeq(_, _)
MapSeq(F(_), sq) == IF sq = <<>> THEN <<>> ELSE <<F(Head(sq))>> \o MapSeq(F, Tail(sq))

\* JSON.stringify of a response
Stringify(resp) == resp
RemovedPaths(new, old) ==
  LET removed(p) == p \in DOMAIN old /\ p \notin DOMAIN new
      entry(p) == Change("REMOVED", p, "", "")
  IN MapSeq(entry, SelectSeq(PathOrder, removed))

RemovedOps(new, old) ==
  LET removed(o) ==
        /\ o[1] \in DOMAIN new /\ o[1] \in DOMAIN old
        /\ o[2] \in DOMAIN old[o[1]] /\ o[2] \notin DOMAIN new[o[1]]
      entry(o) == Change("REMOVED", o[1], ToUpperCase(o[2]), "")
  IN MapSeq(entry, SelectSeq(OpOrder, removed))

Shared(new, old, c) ==
  /\ c[1] \in DOMAIN new /\ c[1] \in DOMAIN old
  /\ c[2] \in DOMAIN new[c[1]] /\ c[2] \in DOMAIN old[c[1]]
  /\ c[3] \in DOMAIN new[c[1]][c[2]].responses
  /\ c[3] \in DOMAIN old[c[1]][c[2]].responses

ChangedResponses(new, old) ==
  LET changed(c) ==
        /\ Shared(new, old, c)
        /\ Stringify(new[c[1]][c[2]].responses[c[3]]) # Stringify(old[c[1]][c[2]].responses[c[3]])
      entry(c) == Change("CHANGED", c[1], ToUpperCase(c[2]), c[3])
  IN MapSeq(entry, SelectSeq(CodeOrder, changed))

\* the whole body runs in one try; the catch appends an ERROR entry to what
\* was collected before the throw
detectBreakingChanges(new, pr) ==
  IF ParseThrows(pr) THEN <<CompareError>>
  ELSE IF ~pr.hasPaths
       THEN IF DOMAIN new = {} THEN <<>> ELSE <<CompareError>>
       ELSE RemovedPaths(new, pr.paths) \o RemovedOps(new, pr.paths)
              \o ChangedResponses(new, pr.paths)

DiffInit ==
  /\ CompilerIdle
  /\ AuditIdle
  /\ ScanIdle /\ ValIdle /\ WatchIdle /\ SyncIdle
  /\ gpc = "diff"
  /\ options = <<>>
  /\ bunYaml = <<>>
  /\ contract \in DiffPaths
  /\ prior \in Priors
  /\ breaking = <<>>
  /\ lintResults = <<>>
  /\ written = FALSE
  /\ gExit = -1

\* generateOpenAPI: `const breakingChanges = await detectBreakingChanges(spec, options.compareTo)`
Diff ==
  /\ gpc = "diff"
  /\ breaking' = detectBreakingChanges(contract, prior)
  /\ gpc' = "diffed"
  /\ UNCHANGED <<options, bunYaml, contract, prior, lintResults, written, gExit>>
  /\ UNCHANGED <<compVars, auditVars, scanVars, valVars, watchVars, syncVars>>

DiffNext == Diff

DiffSpec == DiffInit /\ [][DiffNext]_vars

----------------------------------------------------------------------------
(* Properties of the change detector (DiffSpec) *)

\* the schema a response carries
SchemaOf(resp) ==
  LET hits == {i \in 1..Len(resp) : resp[i][1] = "schema"}
  IN IF hits = {} THEN "" ELSE resp[CHOOSE i \in hits : TRUE][2]

\* the entries of the result that satisfy P
Count(P(_)) == Cardinality({i \in 1..Len(breaking) : P(breaking[i])})
PriorPaths == DOMAIN prior.paths
NewPaths == DOMAIN contract

\* C15: exactly one REMOVED entry for each path of the prior contract that
\* the current one lacks, and none for that path's methods; exactly one
\* REMOVED entry for each method removed from a path both have; a path,
\* method or response code that was only added produces no entry.
C15_RemovedEntries ==
  gpc = "diffed" =>
    /\ \A p \in PriorPaths \ NewPaths :
         /\ Count(LAMBDA e : e.kind = "REMOVED" /\ e.path = p /\ e.method = "") = 1
         /\ Count(LAMBDA e : e.path = p) = 1
    /\ \A p \in PriorPaths \cap NewPaths :
         \A m \in DOMAIN prior.paths[p] \ DOMAIN contract[p] :
           Count(LAMBDA e : e.kind = "REMOVED" /\ e.path = p /\ e.method = ToUpperCase(m)) = 1
    /\ \A i \in 1..Len(breaking) :
         LET e == breaking[i]
         IN /\ e.kind \in {"REMOVED", "CHANGED"}
            /\ e.path \in PriorPaths
            /\ e.method # "" =>
                 \E m \in DOMAIN prior.paths[e.path] :
                   /\ ToUpperCase(m) = e.method
                   /\ e.code # "" => e.code \in DOMAIN prior.paths[e.path][m].responses

\* C16: a CHANGED entry for a method and status both contracts have is
\* reported only when the schema of the response differs; an edit of the
\* description alone produces none.
C16_ChangedOnlyForSchema ==
  gpc = "diffed" =>
    \A i \in 1..Len(breaking) :
      breaking[i].kind = "CHANGED" =>
        \E m \in DOMAIN contract[breaking[i].path] :
          /\ ToUpperCase(m) = breaking[i].method
          /\ SchemaOf(contract[breaking[i].path][m].responses[breaking[i].code])
               # SchemaOf(prior.paths[breaking[i].path][m].responses[breaking[i].code])

----------------------------------------------------------------------------
(* One run of the generator: command line, assembly, gates, write *)

\* the command lines: the arguments below, each given or left out
FullCommandLine == <<"--lint", "--detect-breaking", "--compare-to", "prior.yaml", "--force">>
RECURSIVE SubSeqs(_)
SubSeqs(sq) ==
  IF sq = <<>> THEN {<<>>}
  ELSE LET rest == SubSeqs(Tail(sq))
       IN rest \cup {<<Head(sq)>> \o r : r \in rest}
CommandLines == SubSeqs(FullCommandLine)

\* arg.startsWith('--')
StartsWithDashes(arg) == arg \in {"--lint", "--detect-breaking", "--compare-to", "--force"}

DefaultOptions ==
  [lint |-> FALSE, detectBreaking |-> FALSE, compareTo |-> "", force |-> FALSE]

RECURSIVE ParseCliArgs(_, _, _)
\* the switch over the arguments: the outcome is the options, or exit 1 on
\* an argument the switch does not know; "" stands for compareTo null or
\* undefined
ParseCliArgs(args, i, opts) ==
  IF i > Len(args) THEN [exit |-> FALSE, opts |-> opts]
  ELSE CASE args[i] = "--lint" ->
              ParseCliArgs(args, i + 1, [opts EXCEPT !.lint = TRUE])
         [] args[i] = "--detect-breaking" ->
              ParseCliArgs(args, i + 1, [opts EXCEPT !.detectBreaking = TRUE])
         [] args[i] = "--compare-to" ->
              ParseCliArgs(args, i + 2,
                [opts EXCEPT !.compareTo = IF i + 1 <= Len(args) THEN args[i + 1] ELSE ""])
         [] OTHER ->
              IF StartsWithDashes(args[i]) THEN [exit |-> TRUE, opts |-> opts]
              ELSE ParseCliArgs(args, i + 1, opts)

\* args.includes('--force')
ArgsInclude(args, a) == \E i \in 1..Len(args) : args[i] = a

\* a manifest endpoint: its path below the base path, its method and the
\* responses it declares (none when the key is absent)
GenEndpoint(path, method, responses) ==
  [path |-> path, method |-> method, responses |-> responses]
GenBasePath == <<"/">>
EndpointLists ==
  { <<>>,
    << GenEndpoint(<<"a">>, "GET", <<>>) >>,
    << GenEndpoint(<<"a">>, "GET", "200" :> ResponseA) >>,
    << GenEndpoint(<<"a">>, "GET", "404" :> ResponseA) >>,
    << GenEndpoint(<<"a">>, "GET", "200" :> DescriptionEdited) >>,
    << GenEndpoint(<<"a">>, "GET", "201" :> ResponseA) >>,
    << GenEndpoint(<<"a">>, "GET", "204" :> ResponseA) >>,
    << GenEndpoint(<<"a">>, "GET", "302" :> ResponseA),
       GenEndpoint(<<"a">>, "POST", "404" :> ResponseA) >>,
    << GenEndpoint(<<"a">>, "GET", "200" :> ResponseA),
       GenEndpoint(<<"a">>, "POST", <<>>) >> }

\* a manifest that passed validation: its endpoints and whether
\* rules.api.openapi.info carries a version
GenManifests == [infoVersion : BOOLEAN, endpoints : EndpointLists]

\* the prior contract named by --compare-to
GenPriors ==
  { PriorSpec("json", TRUE, <<>>),
    PriorSpec("json", TRUE, PathA :> ("get" :> Op("200" :> ResponseA))),
    PriorSpec("json", TRUE, PathB :> ("get" :> Op("200" :> ResponseA))) }

RECURSIVE AssemblePaths(_, _, _)
\* the endpoint loop: `spec.paths[path][ep.method.toLowerCase()] = {...}`
\* with `responses = ep.responses ? clone : {}`
AssemblePaths(ps, eps, i) ==
  IF i > Len(eps) THEN ps
  ELSE LET path == GenBasePath \o eps[i].path
           item == IF path \in DOMAIN ps THEN ps[path] ELSE <<>>
           op == Op(eps[i].responses)
       IN AssemblePaths(Put(ps, path, Put(item, ToLowerCase(eps[i].method), op)), eps, i + 1)

\* the contract before the version control step
Assemble(m) ==
  [title |-> TRUE, version |-> m.infoVersion, paths |-> AssemblePaths(<<>>, m.endpoints, 1)]

\* reading the file named by --compare-to happens inside the try of
\* detectBreakingChanges: a path that names no file gives the ERROR entry
CompareWith(spec, path, pr) ==
  IF path = "prior.yaml" THEN detectBreakingChanges(spec.paths, pr) ELSE <<CompareError>>

ContractOps(spec) == {<<p, m>> : p \in DOMAIN spec.paths, m \in {"get", "post"}}
HasOp(spec, o) == o[1] \in DOMAIN spec.paths /\ o[2] \in DOMAIN spec.paths[o[1]]

\* lintOpenAPISpec: the error and warning counters and the operations of the
\* 'missing success response (200/201)' issues; `!operation.responses`
\* is false for every object, the empty one included; assembled operations
\* carry the summary validation requires
lintOpenAPISpec(spec) ==
  LET ops == {o \in ContractOps(spec) : HasOp(spec, o)}
      noSuccess == {o \in ops : "200" \notin DOMAIN spec.paths[o[1]][o[2]].responses
                                 /\ "201" \notin DOMAIN spec.paths[o[1]][o[2]].responses}
  IN [errors |-> (IF spec.title THEN 0 ELSE 1) + (IF spec.version THEN 0 ELSE 1)
                   + (IF DOMAIN spec.paths = {} THEN 1 ELSE 0),
      warnings |-> Cardinality(noSuccess),
      missingSuccess |-> noSuccess]

\* the lint gate blocks on any issue
LintBlocksOnIssues(lr) == lr.errors + lr.warnings > 0

\* `if (lintResults.errors > 0) process.exit(1)`
LintBlocks(lr) == lr.errors > 0

GenInit ==
  /\ CompilerIdle
  /\ AuditIdle
  /\ ScanIdle /\ ValIdle /\ WatchIdle /\ SyncIdle
  /\ gpc = "cli"
  /\ options \in {[args |-> a, opts |-> DefaultOptions] : a \in CommandLines}
  /\ bunYaml \in GenManifests
  /\ contract = <<>>
  /\ prior \in GenPriors
  /\ breaking = <<>>
  /\ lintResults = <<>>
  /\ written = FALSE
  /\ gExit = -1

\* module top level and main: the argument loop, then options.force
ParseCli ==
  /\ gpc = "cli"
  /\ LET r == ParseCliArgs(options.args, 1, options.opts)
     IN IF r.exit
        THEN /\ gpc' = "done"
             /\ gExit' = 1
             /\ UNCHANGED options
        ELSE /\ gpc' = "assemble"
             /\ options' = [options EXCEPT
                  !.opts = [r.opts EXCEPT !.force = ArgsInclude(options.args, "--force")]]
             /\ UNCHANGED gExit
  /\ UNCHANGED <<bunYaml, contract, prior, breaking, lintResults, written>>
  /\ UNCHANGED <<compVars, auditVars, scanVars, valVars, watchVars, syncVars>>

\* generateOpenAPI up to the schema definitions
AssembleContract ==
  /\ gpc = "assemble"
  /\ contract' = Assemble(bunYaml)
  /\ gpc' = "git"
  /\ UNCHANGED <<options, bunYaml, prior, breaking, lintResults, written, gExit>>
  /\ UNCHANGED <<compVars, auditVars, scanVars, valVars, watchVars, syncVars>>

\* version control step: with a commit the version is always set
GitVersion ==
  /\ gpc = "git"
  /\ \E gitSha \in BOOLEAN :
       contract' = [contract EXCEPT !.version = IF gitSha THEN TRUE ELSE @]
  /\ gpc' = "breaking"
  /\ UNCHANGED <<options, bunYaml, prior, breaking, lintResults, written, gExit>>
  /\ UNCHANGED <<compVars, auditVars, scanVars, valVars, watchVars, syncVars>>

\* `if (options.detectBreaking && options.compareTo) { ... }`
BreakingGate ==
  /\ gpc = "breaking"
  /\ IF options.opts.detectBreaking /\ options.opts.compareTo # ""
     THEN LET changes == CompareWith(contract, options.opts.compareTo, prior)
          IN /\ breaking' = changes
             /\ IF Len(changes) > 0 /\ ~options.opts.force
                THEN gpc' = "done" /\ gExit' = 1
                ELSE gpc' = "lint" /\ UNCHANGED gExit
     ELSE /\ gpc' = "lint"
          /\ UNCHANGED <<breaking, gExit>>
  /\ UNCHANGED <<options, bunYaml, contract, prior, lintResults, written>>
  /\ UNCHANGED <<compVars, auditVars, scanVars, valVars, watchVars, syncVars>>

\* `if (options.lint) { ... }`
LintGate ==
  /\ gpc = "lint"
  /\ IF options.opts.lint
     THEN LET lr == lintOpenAPISpec(contract)
          IN /\ lintResults' = lr
             /\ IF LintBlocks(lr)
                THEN gpc' = "done" /\ gExit' = 1
                ELSE gpc' = "write" /\ UNCHANGED gExit
     ELSE /\ gpc' = "write"
          /\ UNCHANGED <<lintResults, gExit>>
  /\ UNCHANGED <<options, bunYaml, contract, prior, breaking, written>>
  /\ UNCHANGED <<compVars, auditVars, scanVars, valVars, watchVars, syncVars>>

\* `await Bun.write(outputPath, outputContent)` and the return to main
WriteArtifact ==
  /\ gpc = "write"
  /\ written' = TRUE
  /\ gExit' = 0
  /\ gpc' = "done"
  /\ UNCHANGED <<options, bunYaml, contract, prior, breaking, lintResults>>
  /\ UNCHANGED <<compVars, auditVars, scanVars, valVars, watchVars, syncVars>>

GenNext ==
  ParseCli \/ AssembleContract \/ GitVersion \/ BreakingGate \/ LintGate \/ WriteArtifact

GenSpec == GenInit /\ [][GenNext]_vars

----------------------------------------------------------------------------
(* Properties of a generator run (GenSpec) *)

GenDone == gpc = "done"
\* --detect-breaking given together with --compare-to and the prior's path
DetectionRequested ==
  /\ ArgsInclude(options.args, "--detect-breaking")
  /\ \E i \in 1..(Len(options.args) - 1) :
       options.args[i] = "--compare-to" /\ options.args[i + 1] = "prior.yaml"
ForceGiven == ArgsInclude(options.args, "--force")
LintRequested == ArgsInclude(options.args, "--lint")
\* the contract the manifest compiles to differs from the prior one in a
\* breaking way
BreakingChangeExists ==
  detectBreakingChanges(AssemblePaths(<<>>, bunYaml.endpoints, 1), prior) # <<>>

\* C14: a run asked to detect breaking changes against a prior contract, and
\* whose contract has one, ends with a non-zero exit and no artifact
\* written, unless --force was given: then the artifact is written.
C14_BreakingAbortsUnlessForced ==
  (GenDone /\ DetectionRequested /\ BreakingChangeExists) =>
    IF ForceGiven
    THEN (~LintRequested => (written /\ gExit = 0))
    ELSE (~written /\ gExit # 0)

LintRan == lintResults # <<>>

C19_EmptyResponsesAreAnError ==
  LintRan =>
    \A o \in ContractOps(contract) :
      HasOp(contract, o) =>
        \/ DOMAIN contract.paths[o[1]][o[2]].responses # {}
        \/ lintResults.errors > 0

----------------------------------------------------------------------------
(* Watch mode: setupWatchMode and the callback of main *)

MaxTicks == 3    \* firings of the interval timer

\* the awaits of generateOpenAPI at which a run yields to the event loop:
\* reading the manifest, reading the rule documents, the git call, the write
RunPhases == <<"load", "scan", "git", "write", "done">>
NextPhase(ph) ==
  CASE ph = "load" -> "scan"
    [] ph = "scan" -> "git"
    [] ph = "git" -> "write"
    [] OTHER -> "done"

WatchInit ==
  /\ CompilerIdle
  /\ AuditIdle
  /\ ScanIdle /\ ValIdle /\ GenIdle /\ SyncIdle
  /\ runs = <<>>
  /\ ticks = 0

\* the interval fires every 2 seconds and calls the callback, which starts
\* generateOpenAPI up to its first await
Tick ==
  /\ ticks < MaxTicks
  /\ ticks' = ticks + 1
  /\ runs' = Append(runs, "load")
  /\ UNCHANGED <<compVars, auditVars, scanVars, valVars, genVars, syncVars>>

\* a pending await of run i resolves and the run goes on to its next one
RunStep(i) ==
  /\ runs[i] # "done"
  /\ runs' = [runs EXCEPT ![i] = NextPhase(runs[i])]
  /\ UNCHANGED ticks
  /\ UNCHANGED <<compVars, auditVars, scanVars, valVars, genVars, syncVars>>

WatchNext == Tick \/ \E i \in 1..Len(runs) : RunStep(i)

WatchSpec == WatchInit /\ [][WatchNext]_vars

----------------------------------------------------------------------------
(* Properties of watch mode (WatchSpec) *)

InProgress == {i \in 1..Len(runs) : runs[i] # "done"}

\* C18: in watch mode at most one run of generateOpenAPI is in progress at
\* any time; a trigger that arrives during a run does not start a second
\* run beside it.
C18_AtMostOneRunInProgress == Cardinality(InProgress) <= 1

----------------------------------------------------------------------------
(* Properties of the list tier (ResolveSpec) *)

\* the files of the index entries whose tag contains text, in index order
FilesContaining(text) ==
  LET sel == SelectSeq(sources, LAMBDA entry : Includes(entry.tag, text))
  IN [i \in 1..Len(sel) |-> sel[i].file]
ExactEntries(pattern) == {i \in 1..Len(sources) : sources[i].tag = pattern}
FileOfExact(pattern) == sources[CHOOSE i \in ExactEntries(pattern) : TRUE].file

\* a pattern stands for its text before the first '*'
AllMatchesOf(pattern) ==
  IF ExactEntries(pattern) # {} THEN <<FileOfExact(pattern)>>
  ELSE FilesContaining(SplitStar0(pattern))
FirstMatchOf(pattern) ==
  IF ExactEntries(pattern) # {} THEN <<FileOfExact(pattern)>>
  ELSE LET files == FilesContaining(SplitStar0(pattern))
       IN IF files = <<>> THEN <<>> ELSE <<files[1]>>

RECURSIVE ConcatOver(_, _)
ConcatOver(F(_), list) ==
  IF list = <<>> THEN <<>> ELSE F(Head(list)) \o ConcatOver(F, Tail(list))

\* C20 as stated: for an x-source list each pattern gives the file of the
\* exactly matching tag when there is one, otherwise the files of all index
\* entries whose tag contains the pattern; the result holds all matches of
\* all patterns, in pattern order, without cap.
C20_ListCollectsAllMatches ==
  (pc = "resolved" /\ DeclaresList) => xSource = ConcatOver(AllMatchesOf, ep.xs.list)

\* C20 amended: each pattern gives the file of the exactly matching tag when
\* there is one, otherwise the file of the first index entry whose tag
\* contains the pattern's text before its first '*'; a pattern without
\* match gives nothing; the result holds at most one file per pattern, in
\* pattern order, without further cap.
C20_ListTakesFirstMatch ==
  (pc = "resolved" /\ DeclaresList) =>
    /\ xSource = ConcatOver(FirstMatchOf, ep.xs.list)
    /\ Len(xSource) <= Len(ep.xs.list)

\* a pattern without exact match that two index entries contain
C20_Witness ==
  /\ pc = "resolved"
  /\ DeclaresList
  /\ \E i \in 1..Len(ep.xs.list) :
       /\ ExactEntries(ep.xs.list[i]) = {}
       /\ Len(FilesContaining(SplitStar0(ep.xs.list[i]))) >= 2
  /\ xSource # <<>>

----------------------------------------------------------------------------
(* Properties of the tag tier (ResolveSpec) *)

TagTierAnswers == pc = "resolved" /\ ~Truthy(ep.xs) /\ DeclaresTags
\* the positions of the endpoint tags that the tag of index entry k contains
TagHits(k) == {i \in 1..Len(ep.tags.list) : Includes(sources[k].tag, ep.tags.list[i])}
MatchedEntries == {k \in 1..Len(sources) : TagHits(k) # {}}
FirstHit(k) == CHOOSE i \in TagHits(k) : \A j \in TagHits(k) : i <= j
\* endpoint-tag order, then index order
Before(k, l) == FirstHit(k) < FirstHit(l) \/ (FirstHit(k) = FirstHit(l) /\ k < l)
EntryOf(f) == CHOOSE k \in 1..Len(sources) : sources[k].file = f

\* C21: for an endpoint without x-source whose tags are declared, the result
\* is the first at most 3 distinct files, in endpoint-tag order and then
\* index order, whose tag contains one of the endpoint's tags; a file whose
\* tag contains none of them is never included.
C21_TagTierFirstThreeDistinct ==
  TagTierAnswers =>
    /\ Len(xSource) = (IF Cardinality(MatchedEntries) < 3 THEN Cardinality(MatchedEntries) ELSE 3)
    /\ \A i \in 1..Len(xSource) :
         \E k \in MatchedEntries : sources[k].file = xSource[i]
    /\ \A i, j \in 1..Len(xSource) :
         i < j => (xSource[i] # xSource[j] /\ Before(EntryOf(xSource[i]), EntryOf(xSource[j])))
    /\ \A k \in MatchedEntries :
         (\A i \in 1..Len(xSource) : xSource[i] # sources[k].file) =>
           \A i \in 1..Len(xSource) : Before(EntryOf(xSource[i]), k)

\* two endpoint tags that the same document's tag contains, beside a
\* document whose tag contains neither
C21_Witness ==
  /\ TagTierAnswers
  /\ \E k \in MatchedEntries : Cardinality(TagHits(k)) = 2
  /\ \E k \in 1..Len(sources) : k \notin MatchedEntries
  /\ xSource # <<>>

----------------------------------------------------------------------------
(* Schema registry: the corpus schemas and the built-in ones in
   components.schemas *)

\* the names the generator synthesizes a schema for, and a corpus-only name
ReservedNames == {"Scope", "Error", "ValidationResult", "SearchResult"}
SchemaNames == ReservedNames \cup {"Custom"}

\* a readable document whose frontmatter and json block, when present,
\* declare a schema under the given names
NamedDoc(preamble, pname, json, jname) ==
  [Doc(TRUE, <<>>, preamble, json) EXCEPT !.pname = pname, !.jname = jname]
SchemaDocs ==
  {NamedDoc(p[1], p[2], j[1], j[2]) :
     p \in {<<"none", "P">>} \cup {<<"good", n>> : n \in SchemaNames},
     j \in {<<"none", "J">>} \cup {<<"good", n>> : n \in SchemaNames}}

\* a schema value is the document that declared it; 0 is the generator's own
BuiltIn == 0

\* `if (!schemas[name]) schemas[name] = {...}`
PutIfAbsent(reg, name) == IF name \in DOMAIN reg THEN reg ELSE Put(reg, name, BuiltIn)

\* every built-in schema is assigned like Scope, whatever the corpus holds
ComponentSchemasOverwritten(corpus) ==
  Put(Put(Put(Put(corpus, "Scope", BuiltIn), "Error", BuiltIn),
          "ValidationResult", BuiltIn), "SearchResult", BuiltIn)

\* Object.assign(schemas, semanticSchemas); schemas.Scope = {...}; then the
\* three guarded built-ins
ComponentSchemas(corpus) ==
  PutIfAbsent(PutIfAbsent(PutIfAbsent(Put(corpus, "Scope", BuiltIn), "Error"),
                          "ValidationResult"), "SearchResult")

SchemaInit ==
  /\ pc = "parse"
  /\ mdIdx = 0
  /\ sources = <<>>
  /\ ep = NoEndpoint
  /\ xSource = <<>>
  /\ epCount = 0
  /\ paths = <<>>
  /\ docs \in SeqsUpTo(SchemaDocs, MaxScanDocs)
  /\ semanticSchemas = <<>>
  /\ ruleDefinitions = <<>>
  /\ AuditIdle
  /\ ValIdle /\ GenIdle /\ WatchIdle /\ SyncIdle

\* generateOpenAPI: the schema definitions section; `contract` holds
\* spec.components.schemas
EmitSchemas ==
  /\ pc = "scanned"
  /\ contract' = ComponentSchemas(semanticSchemas)
  /\ pc' = "emitted"
  /\ UNCHANGED <<mdIdx, sources, ep, xSource, epCount, paths>>
  /\ UNCHANGED <<gpc, options, bunYaml, prior, breaking, lintResults, written, gExit>>
  /\ UNCHANGED <<scanVars, auditVars, valVars, watchVars, syncVars>>

SchemaNext == ScanNext \/ EmitSchemas

SchemaSpec == SchemaInit /\ [][SchemaNext]_vars

----------------------------------------------------------------------------
(* Properties of the schema registry (SchemaSpec) *)

\* the documents that declare a schema called name
Declaring(name) ==
  {i \in DocIds : \/ (docs[i].preamble = "good" /\ docs[i].pname = name)
                  \/ (docs[i].json = "good" /\ docs[i].jname = name)}
\* the corpus definition wins, the built-in one fills the gap
CorpusFirst(name) ==
  contract[name] = (IF Declaring(name) # {} THEN LastOf(Declaring(name)) ELSE BuiltIn)
\* of two corpus definitions the later-scanned one stays
LaterScannedWins ==
  \A name \in SchemaNames \ ReservedNames :
    IF Declaring(name) = {} THEN name \notin DOMAIN contract
    ELSE contract[name] = LastOf(Declaring(name))

\* C22 as stated: every built-in schema (Scope, Error, ValidationResult,
\* SearchResult) is inserted only if the corpus registered none under that
\* name, and of two corpus schemas with one name the later-scanned stays.
C22_BuiltInsInsertIfAbsent ==
  pc = "emitted" => ((\A name \in ReservedNames : CorpusFirst(name)) /\ LaterScannedWins)

\* C22 amended: Error, ValidationResult and SearchResult are inserted only
\* if the corpus registered none under that name; Scope is always the
\* schema built from the manifest and replaces a corpus schema of that
\* name; of two corpus schemas with one name the later-scanned stays.
C22_ScopeAlwaysBuiltIn ==
  pc = "emitted" =>
    /\ \A name \in ReservedNames \ {"Scope"} : CorpusFirst(name)
    /\ contract["Scope"] = BuiltIn
    /\ LaterScannedWins

\* the corpus declares Error, which is kept, and Custom twice
C22_Witness ==
  /\ pc = "emitted"
  /\ Declaring("Error") # {}
  /\ contract["Error"] # BuiltIn
  /\ Cardinality(Declaring("Custom")) = 2

----------------------------------------------------------------------------
(* Schema reference resolution: resolveSchemaReferences *)

\* JSON values: strings, objects (entries in key order) and arrays; a
\* string is kept as a prefix and the rest, so that startsWith and replace
\* are computed on it
Str(prefix, rest) == [kind |-> "str", prefix |-> prefix, rest |-> rest]
Obj(entries) == [kind |-> "obj", entries |-> entries]
Arr(items) == [kind |-> "arr", items |-> items]
SchemaPrefix == "#/components/schemas/"
RulePrefix == "#/rules/"
RefTo(prefix, name) == Obj(<< <<"$ref", Str(prefix, name)>> >>)

\* the schemas of the corpus: A and B refer to each other
SchemaA == Obj(<< <<"type", Str("", "object")>>, <<"b", RefTo(SchemaPrefix, "B")>> >>)
SchemaB == Obj(<< <<"type", Str("", "object")>>, <<"a", RefTo(SchemaPrefix, "A")>> >>)
SchemaRegistries == { <<>>, "A" :> SchemaA, ("A" :> SchemaA) @@ ("B" :> SchemaB) }
RuleRegistries == { <<>>, "R" :> [id |-> "R"] }

\* the reference markers of the trees: present or absent schemas and rules,
\* and a reference of neither style
Markers ==
  { Str(SchemaPrefix, "A"), Str(SchemaPrefix, "B"), Str(SchemaPrefix, "X"),
    Str(RulePrefix, "R"), Str(RulePrefix, "Q"), Str("#/definitions/", "A") }
Ref(m) == Obj(<< <<"$ref", m>> >>)

\* the responses of an endpoint: a marker at the top, below nested objects,
\* in an array, and a `$ref` key that holds an object
RefTrees ==
  { Ref(m) : m \in Markers } \cup
  { Obj(<< <<"200", Obj(<< <<"schema", Ref(m)>> >>)>> >>) : m \in Markers } \cup
  { Obj(<< <<"200", Obj(<< <<"oneOf", Arr(<<Ref(m), Ref(n)>>)>> >>)>> >>) :
      m \in Markers, n \in Markers } \cup
  { Obj(<< <<"$ref", Ref(m)>> >>) : m \in Markers }

\* ruleToSchema without fields
ruleToSchema(rule) ==
  Obj(<< <<"type", Str("", "object")>>, <<"title", Str("", rule.id)>>,
         <<"properties", Obj(<<>>)>> >>)

\* the branch for a `$ref` key that holds a string
ResolveMarker(m, ss, rd) ==
  IF m.prefix = SchemaPrefix
  THEN IF m.rest \in DOMAIN ss THEN ss[m.rest] ELSE m
  ELSE IF m.prefix = RulePrefix
       THEN IF m.rest \in DOMAIN rd THEN ruleToSchema(rd[m.rest]) ELSE m
       ELSE m

\* only the keys of the object itself are looked at
resolveTopLevelOnly(node, ss, rd) ==
  IF node.kind = "obj"
  THEN Obj([i \in 1..Len(node.entries) |->
              IF node.entries[i][1] = "$ref" /\ node.entries[i][2].kind = "str"
              THEN <<"$ref", ResolveMarker(node.entries[i][2], ss, rd)>>
              ELSE node.entries[i]])
  ELSE node

RECURSIVE resolveSchemaReferences(_, _, _)
\* the value of the tree after the in-place walk: `for (const key in obj)`
\* over objects and arrays, a substituted entry is not walked
resolveSchemaReferences(node, ss, rd) ==
  IF node.kind = "obj"
  THEN Obj([i \in 1..Len(node.entries) |->
              IF node.entries[i][1] = "$ref" /\ node.entries[i][2].kind = "str"
              THEN <<"$ref", ResolveMarker(node.entries[i][2], ss, rd)>>
              ELSE <<node.entries[i][1],
                     resolveSchemaReferences(node.entries[i][2], ss, rd)>>])
  ELSE IF node.kind = "arr"
       THEN Arr([i \in 1..Len(node.items) |-> resolveSchemaReferences(node.items[i], ss, rd)])
       ELSE node

\* the contract the linter sees: one operation whose responses are the tree
LintView(tree) ==
  [title |-> TRUE, version |-> TRUE,
   paths |-> PathA :> ("get" :> Op([c \in {tree.entries[i][1] : i \in 1..Len(tree.entries)} |-> tree]))]

RefInit ==
  /\ CompilerIdle
  /\ AuditIdle
  /\ ValIdle /\ WatchIdle /\ SyncIdle
  /\ docs = <<>>
  /\ semanticSchemas \in SchemaRegistries
  /\ ruleDefinitions \in RuleRegistries
  /\ gpc = "refs"
  /\ options = <<>>
  /\ bunYaml \in RefTrees
  /\ contract = <<>>
  /\ prior = <<>>
  /\ breaking = <<>>
  /\ lintResults = <<>>
  /\ written = FALSE
  /\ gExit = -1

\* generateOpenAPI: `resolveSchemaReferences(responses, semanticSchemas, ruleDefinitions)`
ResolveRefs ==
  /\ gpc = "refs"
  /\ contract' = resolveSchemaReferences(bunYaml, semanticSchemas, ruleDefinitions)
  /\ gpc' = "lint"
  /\ UNCHANGED <<options, bunYaml, prior, breaking, lintResults, written, gExit>>
  /\ UNCHANGED <<compVars, auditVars, scanVars, valVars, watchVars, syncVars>>

\* generateOpenAPI: `const lintResults = await lintOpenAPISpec(spec)`
LintRefs ==
  /\ gpc = "lint"
  /\ lintResults' = lintOpenAPISpec(LintView(contract))
  /\ gpc' = "linted"
  /\ UNCHANGED <<options, bunYaml, contract, prior, breaking, written, gExit>>
  /\ UNCHANGED <<compVars, auditVars, scanVars, valVars, watchVars, syncVars>>

RefNext == ResolveRefs \/ LintRefs

RefSpec == RefInit /\ [][RefNext]_vars

----------------------------------------------------------------------------
(* Properties of reference resolution (RefSpec) *)

Children(node) ==
  IF node.kind = "obj" THEN [i \in 1..Len(node.entries) |-> node.entries[i][2]]
  ELSE IF node.kind = "arr" THEN node.items ELSE <<>>
KeyOf(node, i) == IF node.kind = "obj" THEN node.entries[i][1] ELSE ""

RECURSIVE StringMarkers(_)
\* the strings held by `$ref` keys at any depth of a tree
StringMarkers(node) ==
  UNION { IF KeyOf(node, i) = "$ref" /\ Children(node)[i].kind = "str"
          THEN {Children(node)[i]}
          ELSE StringMarkers(Children(node)[i]) : i \in 1..Len(Children(node)) }

RECURSIVE PathsOf(_)
\* the positions of all nodes of a tree, as child indices from the root
PathsOf(node) ==
  {<<>>} \cup UNION { {<<i>> \o q : q \in PathsOf(Children(node)[i])} :
                      i \in 1..Len(Children(node)) }
RECURSIVE At(_, _)
At(node, q) == IF q = <<>> THEN node ELSE At(Children(node)[Head(q)], Tail(q))

IsReference(m) == m.prefix \in {SchemaPrefix, RulePrefix}
Present(m) ==
  \/ (m.prefix = SchemaPrefix /\ m.rest \in DOMAIN semanticSchemas)
  \/ (m.prefix = RulePrefix /\ m.rest \in DOMAIN ruleDefinitions)
EntryFor(m) ==
  IF m.prefix = SchemaPrefix THEN semanticSchemas[m.rest]
  ELSE ruleToSchema(ruleDefinitions[m.rest])
\* position q of the tree holds the string of a `$ref` key
IsMarkerAt(tree, q) ==
  /\ q # <<>>
  /\ KeyOf(At(tree, SubSeq(q, 1, Len(q) - 1)), q[Len(q)]) = "$ref"
  /\ At(tree, q).kind = "str"

RefsResolved == gpc \in {"lint", "linted"}

\* C23: a reference that names a schema or rule absent from both registries
\* is still in the compiled contract, unchanged, and the linter reports a
\* warning for it.
C23_UnresolvedKeptAndWarned ==
  gpc = "linted" =>
    \A m \in StringMarkers(bunYaml) :
      (IsReference(m) /\ ~Present(m)) =>
        (m \in StringMarkers(contract) /\ lintResults.warnings > 0)

\* C24 as stated: resolution ends, and afterwards no reference that names
\* an entry of the schema registry or the rule-definition registry is left
\* as a string at any depth of the resolved tree.
C24_NoResolvableMarkerRemains ==
  RefsResolved => \A m \in StringMarkers(contract) : ~Present(m)

\* C24 amended: resolution ends, and every reference of the given tree, at
\* any depth of objects and arrays, that names an entry of a registry is
\* replaced by that entry; the entry is put in as it is, references inside
\* it are not resolved; everything else in the tree is unchanged.
C24_MarkersOfTheTreeReplaced ==
  RefsResolved =>
    \A q \in PathsOf(bunYaml) :
      IF IsMarkerAt(bunYaml, q) /\ Present(At(bunYaml, q))
      THEN At(contract, q) = EntryFor(At(bunYaml, q))
      ELSE /\ At(contract, q).kind = At(bunYaml, q).kind
           /\ Len(Children(At(contract, q))) = Len(Children(At(bunYaml, q)))
           /\ \A i \in 1..Len(Children(At(bunYaml, q))) :
                KeyOf(At(contract, q), i) = KeyOf(At(bunYaml, q), i)
           /\ At(bunYaml, q).kind = "str" => At(contract, q) = At(bunYaml, q)

\* a reference inside an array, three levels down, replaced by a schema of
\* a registry whose schemas refer to each other
C24_Witness ==
  /\ RefsResolved
  /\ "B" \in DOMAIN semanticSchemas
  /\ \E q \in PathsOf(bunYaml) :
       /\ Len(q) >= 4
       /\ IsMarkerAt(bunYaml, q)
       /\ Present(At(bunYaml, q))
       /\ At(contract, q) = SchemaA

----------------------------------------------------------------------------
(* Properties of the linter's success-response rule (GenSpec) *)

\* the status codes of the 2xx and 3xx range among those endpoints declare
SuccessRange == {"200", "201", "204", "302"}
HasSuccessResponse(o) ==
  DOMAIN contract.paths[o[1]][o[2]].responses \cap SuccessRange # {}

\* C25: the linter issues the missing-success-response warning for an
\* operation exactly when the operation has no response whose status code
\* is in the 2xx or 3xx range, and the warning adds nothing to the error
\* count.
C25_WarningIffNoSuccessResponse ==
  LintRan =>
    /\ \A o \in ContractOps(contract) :
         HasOp(contract, o) => (o \in lintResults.missingSuccess <=> ~HasSuccessResponse(o))
    /\ lintResults.errors > 0 => (~contract.version \/ DOMAIN contract.paths = {})

----------------------------------------------------------------------------
(* Order of processing (ScanSpec) *)

\* the orders in which the documents of the corpus can be processed
Orders == {o \in [DocIds -> DocIds] : \A i, j \in DocIds : o[i] = o[j] => i = j}

RECURSIVE IndexInOrder(_, _)
\* the index the scan builds when it takes the same documents in order o
IndexInOrder(o, n) ==
  IF n = 0 THEN <<>>
  ELSE ScanDocOne(IndexInOrder(o, n - 1), o[n], docs[o[n]])

AsMapping(src) == {src[k] : k \in 1..Len(src)}

\* C26: the tag index does not depend on the order in which the rule
\* documents are processed: every order of the same documents gives the
\* same tag -> file mapping, two documents with one tag being reported as
\* a conflict instead of one replacing the other.
C26_IndexIndependentOfOrder ==
  pc = "scanned" =>
    \A o \in Orders : AsMapping(IndexInOrder(o, Len(docs))) = AsMapping(sources)

----------------------------------------------------------------------------
(* Strict mode and orphan endpoints (AuditSpec) *)

\* the operations of the artifact without sources
Orphans == {o \in AuditOps(artifact) : ~HasSources(artifact[o[1]][o[2]])}

\* C27: in strict mode the auditor exits with an error whenever the
\* artifact has an orphan endpoint, an operation with no sources: the exit
\* code is not 0, and it is 2 when the threshold is met.
C27_StrictOrphanIsAnError ==
  (AuditDone /\ config.strict /\ Orphans # {}) =>
    /\ exitCode # 0
    /\ ComputedMeetsThreshold => exitCode = 2

----------------------------------------------------------------------------
(* Auto-sync: scripts/auto-sync-registry.ts, main, the watcher callback,
   the debounce timeout and the status interval *)

MaxEdits == 2        \* changes made to rules/ while the script watches

debounceMs == 1000   \* parseArgs: `debounceMs: 1000`
statusMs == 30000    \* startWatchMode: `setInterval(..., 30000)`

\* time advances in steps of half the debounce delay
TickMs == debounceMs \div 2
\* a time measured as longer than the debounce delay is not told apart
Far == debounceMs + TickMs

RulePaths == {"rules/a.md"}
Sizes == {10, 20}

\* getCurrentFileStates: one entry per .md file, with mtime and size
FileState(t, sz) == [timestamp |-> t, size |-> sz]
InitialDirs ==
  {[p \in ps |-> FileState(0, 10)] : ps \in SUBSET RulePaths}

\* parseArgs: --watch, --push, --dry-run and --force are inputs
SyncConfigs ==
  [watchMode : BOOLEAN, pushToRegistry : BOOLEAN, dryRun : BOOLEAN, force : BOOLEAN]

\* detectChanges, the comparison: deleted, modified and added paths
detectChanges(cur, old) ==
  {[type |-> "delete", path |-> p] : p \in DOMAIN old \ DOMAIN cur}
  \cup {[type |-> "modify", path |-> p] :
          p \in {q \in DOMAIN old \cap DOMAIN cur :
                   \/ cur[q].timestamp > old[q].timestamp
                   \/ cur[q].size # old[q].size}}
  \cup {[type |-> "add", path |-> p] : p \in DOMAIN cur \ DOMAIN old}

\* the timers a handle names
TimersOf(ts, handle) == {t \in ts : t.id = handle}

\* handleFileChanges without the clearTimeout
DebounceNoClear(ts, handle, id) ==
  ts \cup {[id |-> id, left |-> debounceMs]}

\* handleFileChanges: `if (changeTimeout) clearTimeout(changeTimeout)` and
\* `changeTimeout = setTimeout(..., config.debounceMs)`
Debounce(ts, handle, id) ==
  ((IF handle # 0 THEN ts \ TimersOf(ts, handle) ELSE ts)
     \cup {[id |-> id, left |-> debounceMs]})

\* handleFileChanges, called when the tracked states are `old`: detectChanges
\* replaces the tracked states by the current ones; without a change and
\* without --force the handler returns, else it logs the changes and sets
\* the timeout anew
HandleFileChanges(old) ==
  LET changes == detectChanges(rulesDir, old)
      id == changeTimeout + 1
  IN /\ fileStates' = rulesDir
     /\ IF changes = {} /\ ~syncConfig.force
        THEN UNCHANGED <<timers, changeTimeout, since>>
        ELSE /\ timers' = Debounce(timers, changeTimeout, id)
             /\ changeTimeout' = id
             /\ since' = [pass |-> 0,
                          detect |-> IF changes # {} THEN 0 ELSE since.detect]

\* no cycle started yet: the number of cycles started, and for the last one
\* the time passed since the handler last set the timeout (gap) and since it
\* last saw a change (quiet), and the rule documents it started with, or
\* those startWatchMode found (saw)
NoCycle == [n |-> 0, gap |-> 0, quiet |-> 0, saw |-> <<>>]

SyncInit ==
  /\ CompilerIdle
  /\ AuditIdle
  /\ ScanIdle /\ ValIdle /\ GenIdle /\ WatchIdle
  /\ spc = "start"
  /\ syncConfig \in SyncConfigs
  /\ rulesDir \in InitialDirs
  /\ edits = 0
  /\ fileStates = <<>>
  /\ events = 0
  /\ timers = {}
  /\ changeTimeout = 0
  /\ since = [pass |-> Far, detect |-> Far]
  /\ checkDue = 0
  /\ cycles = <<>>
  /\ started = NoCycle

syncFrame == <<compVars, auditVars, scanVars, valVars, genVars, watchVars>>

\* main: watch mode starts the watcher and the status interval; the one-time
\* execution records the file states and calls handleFileChanges once
Main ==
  /\ spc = "start"
  /\ IF syncConfig.watchMode
     THEN /\ spc' = "watching"
          /\ fileStates' = rulesDir
          /\ checkDue' = statusMs
          /\ started' = [started EXCEPT !.saw = rulesDir]
          /\ UNCHANGED <<timers, changeTimeout, since>>
     ELSE /\ spc' = "once"
          /\ HandleFileChanges(rulesDir)
          /\ UNCHANGED <<checkDue, started>>
  /\ UNCHANGED <<syncConfig, rulesDir, edits, events, cycles>>
  /\ UNCHANGED syncFrame

\* somebody adds, modifies or deletes a rule document; the watcher raises an
\* event for it
Edit ==
  /\ spc = "watching"
  /\ edits < MaxEdits
  /\ \E p \in RulePaths :
       \/ /\ p \notin DOMAIN rulesDir
          /\ \E sz \in Sizes :
               rulesDir' = [q \in DOMAIN rulesDir \cup {p} |->
                              IF q = p THEN FileState(edits + 1, sz) ELSE rulesDir[q]]
       \/ /\ p \in DOMAIN rulesDir
          /\ \E sz \in Sizes :
               rulesDir' = [rulesDir EXCEPT ![p] = FileState(edits + 1, sz)]
       \/ /\ p \in DOMAIN rulesDir
          /\ rulesDir' = [q \in DOMAIN rulesDir \ {p} |-> rulesDir[q]]
  /\ edits' = edits + 1
  /\ events' = events + 1
  /\ UNCHANGED <<spc, syncConfig, fileStates, timers, changeTimeout, since,
                 checkDue, cycles, started>>
  /\ UNCHANGED syncFrame

\* a timeout that is due runs before any other callback of the loop
TimerDue == \E t \in timers : t.left <= 0

\* startWatchMode, the callback of watch: an event for a .md file calls
\* handleFileChanges
WatcherEvent ==
  /\ spc = "watching"
  /\ events > 0
  /\ ~TimerDue
  /\ events' = events - 1
  /\ HandleFileChanges(fileStates)
  /\ UNCHANGED <<spc, syncConfig, rulesDir, edits, checkDue, cycles, started>>
  /\ UNCHANGED syncFrame

\* startWatchMode, the callback of setInterval: detectChanges replaces the
\* tracked states, and the changes it returns are only logged
StatusCheck ==
  /\ spc = "watching"
  /\ checkDue <= 0
  /\ fileStates' = rulesDir
  /\ checkDue' = statusMs
  /\ UNCHANGED <<spc, syncConfig, rulesDir, edits, events, timers, changeTimeout,
                 since, cycles, started>>
  /\ UNCHANGED syncFrame

\* a timeout callback at its start
NewCycle == [pc |-> "start", gen |-> "none", audit |-> "none"]

\* the callbacks that have not returned
Running(cs) == SelectSeq(cs, LAMBDA c : c.pc # "done")

\* the timeout callback with the push not depending on regenerateSpec
AfterRegeneratePushAlways(c, specSuccess) ==
  IF syncConfig.pushToRegistry
  THEN [c EXCEPT !.pc = "push"]
  ELSE [c EXCEPT !.pc = "done"]

\* the timeout callback after `const specSuccess = await regenerateSpec(config)`:
\* it returns on a failure, and calls pushToRegistry if config.pushToRegistry
AfterRegenerate(c, specSuccess) ==
  IF ~specSuccess
  THEN [c EXCEPT !.pc = "done"]
  ELSE IF syncConfig.pushToRegistry
       THEN [c EXCEPT !.pc = "push"]
       ELSE [c EXCEPT !.pc = "done"]

\* the exits of a spawned command: exit code 0, another exit code, an exception
Exits == {"ok", "fail", "throw"}

\* the timeout fires: the callback starts a cycle and calls regenerateSpec,
\* which returns true at once in a dry run and else awaits `bun run api:gen`
TimerFires ==
  /\ \E t \in timers :
       /\ t.left <= 0
       /\ timers' = timers \ {t}
  /\ cycles' = Running(Append(cycles,
                         IF syncConfig.dryRun
                         THEN AfterRegenerate(NewCycle, TRUE)
                         ELSE [NewCycle EXCEPT !.pc = "gen"]))
  /\ started' = [n |-> started.n + 1, gap |-> since.pass, quiet |-> since.detect,
                 saw |-> rulesDir]
  /\ UNCHANGED <<spc, syncConfig, rulesDir, edits, fileStates, events,
                 changeTimeout, since, checkDue>>
  /\ UNCHANGED syncFrame

\* regenerateSpec: `bun run api:gen` ends; a failure returns false, else
\* `bun run audit:ci` is awaited
GenExits(i) ==
  /\ cycles[i].pc = "gen"
  /\ \E r \in Exits :
       cycles' = Running([cycles EXCEPT ![i] =
                            IF r = "ok"
                            THEN [@ EXCEPT !.gen = r, !.pc = "audit"]
                            ELSE AfterRegenerate([@ EXCEPT !.gen = r], FALSE)])
  /\ UNCHANGED <<spc, syncConfig, rulesDir, edits, fileStates, events, timers,
                 changeTimeout, since, checkDue, started>>
  /\ UNCHANGED syncFrame

\* regenerateSpec: `bun run audit:ci` ends and regenerateSpec returns
AuditExits(i) ==
  /\ cycles[i].pc = "audit"
  /\ \E r \in Exits :
       cycles' = Running([cycles EXCEPT ![i] =
                            AfterRegenerate([@ EXCEPT !.audit = r], r = "ok")])
  /\ UNCHANGED <<spc, syncConfig, rulesDir, edits, fileStates, events, timers,
                 changeTimeout, since, checkDue, started>>
  /\ UNCHANGED syncFrame

\* pushToRegistry returns, and the callback with it
PushEnds(i) ==
  /\ cycles[i].pc = "push"
  /\ cycles' = Running([cycles EXCEPT ![i].pc = "done"])
  /\ UNCHANGED <<spc, syncConfig, rulesDir, edits, fileStates, events, timers,
                 changeTimeout, since, checkDue, started>>
  /\ UNCHANGED syncFrame

Later(ms) == IF ms + TickMs > Far THEN Far ELSE ms + TickMs

\* time passes while no callback is due; the one-time execution ends with
\* its last timeout
TimePasses ==
  /\ ~TimerDue
  /\ \/ spc = "watching" /\ checkDue > 0
     \/ spc = "once" /\ timers # {}
  /\ timers' = {[t EXCEPT !.left = @ - TickMs] : t \in timers}
  /\ checkDue' = IF spc = "watching" THEN checkDue - TickMs ELSE checkDue
  /\ since' = [pass |-> Later(since.pass), detect |-> Later(since.detect)]
  /\ UNCHANGED <<spc, syncConfig, rulesDir, edits, fileStates, events,
                 changeTimeout, cycles, started>>
  /\ UNCHANGED syncFrame

SyncNext ==
  \/ Main
  \/ Edit
  \/ WatcherEvent
  \/ StatusCheck
  \/ TimerFires
  \/ \E i \in 1..Len(cycles) : GenExits(i)
  \/ \E i \in 1..Len(cycles) : AuditExits(i)
  \/ \E i \in 1..Len(cycles) : PushEnds(i)
  \/ TimePasses

SyncSpec == SyncInit /\ [][SyncNext]_vars

----------------------------------------------------------------------------
(* Properties of the auto-sync script (SyncSpec) *)

\* C28: a timeout callback awaits pushToRegistry only if the push flag is
\* set and regenerateSpec of the same callback returned true, that is in a
\* dry run or after both `bun run api:gen` and `bun run audit:ci` exited
\* with 0; a callback whose generation or audit failed never awaits the push.
C28_PushOnlyAfterSuccess ==
  \A i \in 1..Len(cycles) :
    /\ cycles[i].pc = "push" =>
          /\ syncConfig.pushToRegistry
          /\ syncConfig.dryRun \/ (cycles[i].gen = "ok" /\ cycles[i].audit = "ok")
    /\ (cycles[i].gen \in {"fail", "throw"} \/ cycles[i].audit \in {"fail", "throw"}) =>
          cycles[i].pc # "push"

\* a push awaited after generation and audit both exited with 0
C28_Witness ==
  \E i \in 1..Len(cycles) :
    /\ cycles[i].pc = "push"
    /\ ~syncConfig.dryRun
    /\ cycles[i].gen = "ok" /\ cycles[i].audit = "ok"

\* the debounce of watch mode: at most one timeout is pending, a timeout
\* pending is the one of the handle
OneTimerPending ==
  /\ Cardinality(timers) <= 1
  /\ \A t \in timers : t.id = changeTimeout

\* C29 as stated: in watch mode at most one debounce timeout is pending at
\* any time, and every cycle starts debounceMs after the last event of its
\* burst that detected a change.
C29_CycleAfterLastDetectedChange ==
  spc = "watching" =>
    /\ OneTimerPending
    /\ started.n > 0 => started.quiet = debounceMs

\* C29, amended: in watch mode at most one debounce timeout is pending at any
\* time; while the last event the handler went on with (one that detected a
\* change, or any event under --force) is less than debounceMs ago, the
\* timeout is pending and due debounceMs after that event; and every cycle
\* starts debounceMs after that event, so a burst starts exactly one cycle.
C29_CycleAfterLastHandledEvent ==
  spc = "watching" =>
    /\ OneTimerPending
    /\ \A t \in timers : t.left = debounceMs - since.pass
    /\ since.pass < debounceMs => timers # {}
    /\ started.n > 0 => started.gap = debounceMs

\* a burst of two events the handler went on with, and the one cycle it started
C29_Witness ==
  /\ spc = "watching"
  /\ changeTimeout = 2
  /\ started.n = 1
  /\ started.gap = debounceMs
  /\ timers = {}

\* nothing is pending: no watcher event to deliver and no timeout set
Quiescent == events = 0 /\ timers = {}

\* C30: in watch mode no change of a rule document is lost: once every
\* watcher event is delivered and no timeout is pending, the last cycle
\* started with the rule documents as they are now, or no cycle started and
\* they are as startWatchMode found them. A state that breaks this holds a
\* change that no cycle follows unless rules/ changes again.
C30_NoChangeLost ==
  (spc = "watching" /\ Quiescent) => started.saw = rulesDir

====
